---- MODULE Spec2Model ----
(***************************************************************************)
(* A model of the access-decision path of simple-wifi-radius-authenticator *)
(* (radiusHandler, macdatabase.GetMACRecord), of the MAC address helpers   *)
(* of utils.go, of the process around them (main, the serve goroutines,    *)
(* the signal goroutine, concurrent handlers), of the mutex of macdatabase *)
(* and of the Web UI's console: its device and group handlers and its      *)
(* session gate.                                                           *)
(*                                                                         *)
(* A Go string is modelled as a sequence of one-character strings, so that *)
(* lower-casing, delimiter stripping, splitting and pattern matching are   *)
(* computed character by character as the library routines compute them.   *)
(***************************************************************************)
EXTENDS Integers, Sequences, FiniteSets, TLC

\* ------------------------------------------------------------------------
\* Bounds
\* ------------------------------------------------------------------------

\* Longest string of the exhaustive enumeration of inputs of the pure helpers.
MaxLen == 3

\* ------------------------------------------------------------------------
\* Characters and strings
\* ------------------------------------------------------------------------

Digits == {"0", "1", "2", "3", "4", "5", "6", "7", "8", "9"}

\* The character class [0-9a-f] of the MAC pattern.
HexLower == Digits \cup {"a", "b", "c", "d", "e", "f"}

\* The upper-case letters of the modelled alphabet and, position by position,
\* their lower-case counterparts.
UpperChars == <<"A", "B", "C", "D", "E", "F", "G", "N">>
LowerChars == <<"a", "b", "c", "d", "e", "f", "g", "n">>

\* unicode.ToLower on one character: an upper-case letter maps to its
\* lower-case counterpart, every other character is unchanged.
toLowerChar(c) ==
    IF \E i \in 1..Len(UpperChars) : UpperChars[i] = c
    THEN LowerChars[CHOOSE i \in 1..Len(UpperChars) : UpperChars[i] = c]
    ELSE c

\* strings.ToLower: maps every character, left to right.
RECURSIVE ToLower(_)
ToLower(s) ==
    IF s = <<>> THEN <<>>
    ELSE <<toLowerChar(Head(s))>> \o ToLower(Tail(s))

\* TRUE iff string old occurs in s at position i (1-based).
HasPrefixAt(s, i, old) ==
    /\ i + Len(old) - 1 <= Len(s)
    /\ \A k \in 1..Len(old) : s[i + k - 1] = old[k]

\* ReplaceFrom with the bug of replacing the first occurrence only.
RECURSIVE ReplaceFirstFrom(_, _, _)
ReplaceFirstFrom(pairs, s, i) ==
    IF i > Len(s) THEN <<>>
    ELSE IF \E p \in 1..Len(pairs) : HasPrefixAt(s, i, pairs[p][1])
         THEN LET p == CHOOSE q \in 1..Len(pairs) :
                          /\ HasPrefixAt(s, i, pairs[q][1])
                          /\ \A r \in 1..(q - 1) : ~HasPrefixAt(s, i, pairs[r][1])
              IN  pairs[p][2] \o SubSeq(s, i + Len(pairs[p][1]), Len(s))
         ELSE <<s[i]>> \o ReplaceFirstFrom(pairs, s, i + 1)

\* strings.Replacer.Replace for a replacer built from the old/new pairs of
\* `pairs` (all old strings non-empty): scanning left to right, at each
\* position the first pair (in argument order) whose old string occurs there
\* is applied and the scan continues after it; otherwise the character is
\* copied.
RECURSIVE ReplaceFrom(_, _, _)
ReplaceFrom(pairs, s, i) ==
    IF i > Len(s) THEN <<>>
    ELSE IF \E p \in 1..Len(pairs) : HasPrefixAt(s, i, pairs[p][1])
         THEN LET p == CHOOSE q \in 1..Len(pairs) :
                          /\ HasPrefixAt(s, i, pairs[q][1])
                          /\ \A r \in 1..(q - 1) : ~HasPrefixAt(s, i, pairs[r][1])
              IN  pairs[p][2] \o ReplaceFrom(pairs, s, i + Len(pairs[p][1]))
         ELSE <<s[i]>> \o ReplaceFrom(pairs, s, i + 1)

Replace(pairs, s) == ReplaceFrom(pairs, s, 1)

\* stripMACDelimiters with the "." pair forgotten.
stripMACDelimitersNoDot == << << <<":">>, <<>> >>, << <<"-">>, <<>> >> >>

\* utils.go: strings.NewReplacer(":", "", "-", "", ".", "")
stripMACDelimiters == << << <<":">>, <<>> >>, << <<"-">>, <<>> >>, << <<".">>, <<>> >> >>

\* radius.go: the replacer radiusHandler builds for itself.
stripDelimiters == << << <<":">>, <<>> >>, << <<"-">>, <<>> >>, << <<".">>, <<>> >> >>

\* utils.go: normalizeMACAddress
normalizeMACAddress(mac) == Replace(stripMACDelimiters, ToLower(mac))

\* Number of repetitions in the pattern ^[0-9a-f]{12}$.
MACLen == 12

\* regexp.MatchString(`^[0-9a-f]{12}$`, s): anchored at the start of the
\* text, n characters of the class, then the end of the text ($ without the
\* m flag matches only at the very end).
\* MatchClassRun with the closing $ of the pattern forgotten.
RECURSIVE MatchClassRunNoEnd(_, _, _)
MatchClassRunNoEnd(s, i, n) ==
    IF n = 0 THEN TRUE
    ELSE /\ i <= Len(s)
         /\ s[i] \in HexLower
         /\ MatchClassRunNoEnd(s, i + 1, n - 1)

RECURSIVE MatchClassRun(_, _, _)
MatchClassRun(s, i, n) ==
    IF n = 0 THEN i = Len(s) + 1
    ELSE /\ i <= Len(s)
         /\ s[i] \in HexLower
         /\ MatchClassRun(s, i + 1, n - 1)

MatchMACPattern(s) == MatchClassRun(s, 1, MACLen)

\* utils.go: isValidMACFormat (the pattern compiles, so err is always nil)
isValidMACFormat(mac) == MatchMACPattern(mac)

\* unicode.ToUpper on one character: a lower-case letter maps to its
\* upper-case counterpart, every other character is unchanged.
toUpperChar(c) ==
    IF \E i \in 1..Len(LowerChars) : LowerChars[i] = c
    THEN UpperChars[CHOOSE i \in 1..Len(LowerChars) : LowerChars[i] = c]
    ELSE c

\* strings.ToUpper: maps every character, left to right.
RECURSIVE ToUpper(_)
ToUpper(s) ==
    IF s = <<>> THEN <<>>
    ELSE <<toUpperChar(Head(s))>> \o ToUpper(Tail(s))

\* The Go slice expression s[lo:hi] (0-based, hi exclusive).
Slice(s, lo, hi) == SubSeq(s, lo + 1, hi)

\* prettyPrintMACAddress with the upper-casing forgotten.
prettyPrintMACAddressNoUpper(mac) ==
    IF ~isValidMACFormat(mac) THEN <<>>
    ELSE Slice(mac, 0, 2) \o <<":">> \o Slice(mac, 2, 4) \o <<":">>
             \o Slice(mac, 4, 6) \o <<":">> \o Slice(mac, 6, 8) \o <<":">>
             \o Slice(mac, 8, 10) \o <<":">> \o Slice(mac, 10, 12)

\* utils.go: prettyPrintMACAddress
prettyPrintMACAddress(mac) ==
    IF ~isValidMACFormat(mac) THEN <<>>
    ELSE ToUpper(Slice(mac, 0, 2) \o <<":">> \o Slice(mac, 2, 4) \o <<":">>
                     \o Slice(mac, 4, 6) \o <<":">> \o Slice(mac, 6, 8) \o <<":">>
                     \o Slice(mac, 8, 10) \o <<":">> \o Slice(mac, 10, 12))

\* strings.Index(s, sep) from position i on: the first position at or after i
\* where sep occurs, 0 when there is none.
RECURSIVE IndexFrom(_, _, _)
IndexFrom(s, sep, i) ==
    IF i + Len(sep) - 1 > Len(s) THEN 0
    ELSE IF HasPrefixAt(s, i, sep) THEN i
    ELSE IndexFrom(s, sep, i + 1)

\* strings.Split(s, sep) for a non-empty sep: the substrings between the
\* occurrences of sep; a string without sep (the empty string included)
\* yields the one-element list holding the string itself.
RECURSIVE Split(_, _)
Split(s, sep) ==
    LET j == IndexFrom(s, sep, 1)
    IN  IF j = 0 THEN <<s>>
        ELSE <<SubSeq(s, 1, j - 1)>> \o Split(SubSeq(s, j + Len(sep), Len(s)), sep)

\* ------------------------------------------------------------------------
\* RADIUS requests
\* ------------------------------------------------------------------------

\* An attribute of a packet: present with a value, or absent.
Attr(v) == [present |-> TRUE, value |-> v]
NoStringAttr == [present |-> FALSE, value |-> <<>>]

\* rfc2865 NAS-Port-Type values, by name.  Async is the value 0, which is also
\* what NASPortType_Get returns for a packet without the attribute.
NASPortType_Value_Async == "Async"
NASPortType_Value_Ethernet == "Ethernet"
NASPortType_Value_WirelessOther == "Wireless-Other"
NASPortType_Value_Wireless80211 == "Wireless-802.11"
NoPortAttr == [present |-> FALSE, value |-> NASPortType_Value_Async]

\* rfc2865.UserName_GetString: the attribute's text, "" when it is missing.
UserName_GetString(packet) ==
    IF packet.UserName.present THEN packet.UserName.value ELSE <<>>

\* rfc2865.NASPortType_Get: the attribute's value, the zero value when missing.
NASPortType_Get(packet) ==
    IF packet.NASPortType.present THEN packet.NASPortType.value
    ELSE NASPortType_Value_Async

\* rfc2865.CalledStationID_GetString: the attribute's text, "" when missing.
CalledStationID_GetString(packet) ==
    IF packet.CalledStationID.present THEN packet.CalledStationID.value ELSE <<>>

CodeAccessAccept == "Access-Accept"
CodeAccessReject == "Access-Reject"

\* radiusHandler, line 71: the inline normalization of the user name.
handlerMAC(username) == Replace(stripDelimiters, ToLower(username))

\* handlerValidFormat with the pattern ^[0-9a-f]*$, which has lost its count.
RECURSIVE AllHexFrom(_, _)
AllHexFrom(s, i) == i > Len(s) \/ (s[i] \in HexLower /\ AllHexFrom(s, i + 1))
handlerValidFormatAnyLength(mac) == AllHexFrom(mac, 1)

\* radiusHandler, line 74: the inline format check.
handlerValidFormat(mac) == MatchMACPattern(mac)

\* handlerCsiParts with the bug of splitting at the first ":" only
\* (strings.SplitN with n = 2).
handlerCsiPartsSplitN2(calledStationID) ==
    LET j == IndexFrom(calledStationID, <<":">>, 1)
    IN  IF j = 0 THEN <<calledStationID>>
        ELSE <<SubSeq(calledStationID, 1, j - 1),
               SubSeq(calledStationID, j + 1, Len(calledStationID))>>

\* radiusHandler, line 77: the parts of the Called-Station-Id.
handlerCsiParts(calledStationID) == Split(calledStationID, <<":">>)

\* notWirelessPort with the wrong constant in its second comparison.
notWirelessPortWrongValue(nasPortType) ==
    /\ nasPortType # NASPortType_Value_Wireless80211
    /\ nasPortType # NASPortType_Value_Ethernet

\* radiusHandler, line 81: the first case of the switch.
notWirelessPort(nasPortType) ==
    /\ nasPortType # NASPortType_Value_Wireless80211
    /\ nasPortType # NASPortType_Value_WirelessOther

\* ------------------------------------------------------------------------
\* The store: the tables of macdatabase.initialize
\* ------------------------------------------------------------------------

\* Named strings used as store contents and request values.
MacA == <<"a", "a", "b", "b", "c", "c", "d", "d", "e", "e", "f", "f">>
MacB == <<"0", "a", "1", "b", "2", "c", "3", "d", "4", "e", "5", "f">>
NetNa == <<"N", "a">>
NetNb == <<"N", "b">>
NetEmpty == <<>>

\* Candidate rows of the tables macaddress, devicegroup and ssid.
DeviceRows == {[id |-> 1, macaddress |-> MacA], [id |-> 2, macaddress |-> MacB]}
GroupRows == {[id |-> 1, name |-> "Staff"], [id |-> 2, name |-> "Guests"]}
SsidRows == {[id |-> 1, ssid |-> NetNa], [id |-> 2, ssid |-> NetNb],
             [id |-> 3, ssid |-> NetEmpty]}

\* Most rows a join table holds in an enumerated store.
MaxJoinRows == 2

\* The stores of the enumeration: any set of devices; the group and ssid
\* tables in full; join tables whose rows refer to existing rows (foreign
\* keys are enforced), each of at most MaxJoinRows rows.
ForeignKeysHold(s) ==
    /\ \A r \in s.macaddress_devicegroup :
          /\ \E d \in s.macaddress : d.id = r[1]
          /\ \E g \in s.devicegroup : g.id = r[2]
    /\ \A r \in s.group_ssid :
          /\ \E g \in s.devicegroup : g.id = r[1]
          /\ \E n \in s.ssid : n.id = r[2]

Stores ==
    { s \in [macaddress : SUBSET DeviceRows,
             devicegroup : {GroupRows},
             ssid : {SsidRows},
             macaddress_devicegroup :
                 { r \in SUBSET ({d.id : d \in DeviceRows} \X {g.id : g \in GroupRows}) :
                     Cardinality(r) <= MaxJoinRows },
             group_ssid :
                 { r \in SUBSET ({g.id : g \in GroupRows} \X {n.id : n \in SsidRows}) :
                     Cardinality(r) <= MaxJoinRows }] :
        ForeignKeysHold(s) }

\* ------------------------------------------------------------------------
\* macdatabase.GetMACRecord
\* ------------------------------------------------------------------------

\* The zero value of macrecord.
NoRecord == [macaddress |-> [id |-> 0, macaddress |-> <<>>], devicegroup |-> {}, ssid |-> {}]

ErrNil == "nil"
ErrNoRows == "sql: no rows in result set"
ErrStorage == "storage fault"

\* Where a storage fault can strike one lookup: preparing or running one of
\* the three statements, or while the rows of the second or third are read.
FaultPoints == {"none", "prepare1", "queryrow1", "prepare2", "query2", "rows2",
                "prepare3", "query3", "rows3"}

\* SELECT id, macaddress FROM macaddress WHERE macaddress = ? LIMIT 1
SelectDevice(s, m) == {d \in s.macaddress : d.macaddress = m}

\* SELECT DISTINCT dg.id, dg.name FROM devicegroup dg INNER JOIN
\* macaddress_devicegroup md ON dg.id = md.devicegroup WHERE md.macaddress = ?
SelectGroups(s, id) ==
    {dg \in s.devicegroup :
        \E md \in s.macaddress_devicegroup : md[2] = dg.id /\ md[1] = id}

\* SelectSsids with the WHERE clause forgotten: the networks of every
\* device's groups.
SelectSsidsAnyDevice(s, id) ==
    {ss \in s.ssid :
        \E gs \in s.group_ssid : \E md \in s.macaddress_devicegroup :
            /\ ss.id = gs[2]
            /\ gs[1] = md[2]}

\* SELECT DISTINCT ss.id, ss.ssid FROM ssid ss INNER JOIN group_ssid gs ON
\* ss.id = gs.ssid INNER JOIN macaddress_devicegroup md ON gs.devicegroup =
\* md.devicegroup WHERE md.macaddress = ?
SelectSsids(s, id) ==
    {ss \in s.ssid :
        \E gs \in s.group_ssid : \E md \in s.macaddress_devicegroup :
            /\ ss.id = gs[2]
            /\ gs[1] = md[2]
            /\ md[1] = id}

\* GetMACRecord with the error of the third statement's Query not checked:
\* the lookup returns the record without an error.
GetMACRecordUncheckedQuery(s, m, f, groupsRead, ssidsRead) ==
    IF f = "prepare1" THEN [record |-> NoRecord, err |-> ErrStorage]
    ELSE IF f = "queryrow1" THEN [record |-> NoRecord, err |-> ErrStorage]
    ELSE IF SelectDevice(s, m) = {} THEN [record |-> NoRecord, err |-> ErrNoRows]
    ELSE LET dev == CHOOSE d \in SelectDevice(s, m) : TRUE
             groups == IF f = "rows2" THEN groupsRead ELSE SelectGroups(s, dev.id)
             ssids == IF f = "rows3" THEN ssidsRead ELSE SelectSsids(s, dev.id)
         IN  IF f \in {"prepare2", "query2"} THEN [record |-> NoRecord, err |-> ErrStorage]
             ELSE IF f \in {"prepare3"} THEN [record |-> NoRecord, err |-> ErrStorage]
             ELSE [record |-> [macaddress |-> dev, devicegroup |-> groups, ssid |-> ssids],
                   err |-> ErrNil]

\* GetMACRecord reporting a missing device row with the same error as a
\* failed statement.
GetMACRecordOpaqueError(s, m, f, groupsRead, ssidsRead) ==
    IF f = "prepare1" THEN [record |-> NoRecord, err |-> ErrStorage]
    ELSE IF f = "queryrow1" THEN [record |-> NoRecord, err |-> ErrStorage]
    ELSE IF SelectDevice(s, m) = {} THEN [record |-> NoRecord, err |-> ErrStorage]
    ELSE LET dev == CHOOSE d \in SelectDevice(s, m) : TRUE
             groups == IF f = "rows2" THEN groupsRead ELSE SelectGroups(s, dev.id)
             ssids == IF f = "rows3" THEN ssidsRead ELSE SelectSsids(s, dev.id)
         IN  IF f \in {"prepare2", "query2"} THEN [record |-> NoRecord, err |-> ErrStorage]
             ELSE IF f \in {"prepare3", "query3"} THEN [record |-> NoRecord, err |-> ErrStorage]
             ELSE [record |-> [macaddress |-> dev, devicegroup |-> groups, ssid |-> ssids],
                   err |-> ErrNil]

\* GetMACRecord(m) against store s, with a storage fault striking at point f.
\* A fault while rows are read ends the rows.Next loop early, after the rows
\* of groupsRead (ssidsRead); the loop's error is not looked at, so the
\* lookup goes on with what it has read.
GetMACRecord(s, m, f, groupsRead, ssidsRead) ==
    IF f = "prepare1" THEN [record |-> NoRecord, err |-> ErrStorage]
    ELSE IF f = "queryrow1" THEN [record |-> NoRecord, err |-> ErrStorage]
    ELSE IF SelectDevice(s, m) = {} THEN [record |-> NoRecord, err |-> ErrNoRows]
    ELSE LET dev == CHOOSE d \in SelectDevice(s, m) : TRUE
             groups == IF f = "rows2" THEN groupsRead ELSE SelectGroups(s, dev.id)
             ssids == IF f = "rows3" THEN ssidsRead ELSE SelectSsids(s, dev.id)
         IN  IF f \in {"prepare2", "query2"} THEN [record |-> NoRecord, err |-> ErrStorage]
             ELSE IF f \in {"prepare3", "query3"} THEN [record |-> NoRecord, err |-> ErrStorage]
             ELSE [record |-> [macaddress |-> dev, devicegroup |-> groups, ssid |-> ssids],
                   err |-> ErrNil]

\* verifySSID with a default-allow policy for addresses without a record.
verifySSIDDefaultAllow(rec, e, requested) ==
    IF e = ErrNoRows THEN CodeAccessAccept
    ELSE IF e # ErrNil THEN CodeAccessReject
    ELSE IF \E n \in rec.ssid : n.ssid = requested THEN CodeAccessAccept
    ELSE CodeAccessReject

\* verifySSID comparing the names without regard to letter case
\* (strings.EqualFold).
verifySSIDEqualFold(rec, e, requested) ==
    IF e # ErrNil THEN CodeAccessReject
    ELSE IF \E n \in rec.ssid : ToLower(n.ssid) = ToLower(requested) THEN CodeAccessAccept
    ELSE CodeAccessReject

\* radiusHandler, lines 86-97: the code decided from the lookup's result.
verifySSID(rec, e, requested) ==
    IF e # ErrNil THEN CodeAccessReject
    ELSE IF \E n \in rec.ssid : n.ssid = requested THEN CodeAccessAccept
    ELSE CodeAccessReject

\* ------------------------------------------------------------------------
\* Requests of the enumeration
\* ------------------------------------------------------------------------

\* "AA:BB:CC:DD:EE:FF"
IdUpperA == <<"A", "A", ":", "B", "B", ":", "C", "C", ":", "D", "D", ":", "E", "E", ":", "F", "F">>
\* "0a1b.2c3d.4e5f"
IdDottedB == <<"0", "a", "1", "b", ".", "2", "c", "3", "d", ".", "4", "e", "5", "f">>
\* "112233445566"
IdUnregistered == <<"1", "1", "2", "2", "3", "3", "4", "4", "5", "5", "6", "6">>
\* "not-a-mac"
IdNotAMac == <<"n", "o", "t", "-", "a", "-", "m", "a", "c">>

\* "0A-1B:", the access point's address in front of the network name
ApPrefix == <<"0", "A", "-", "1", "B", ":">>
\* "0A:1B:", the same with a colon inside
ApColonPrefix == <<"0", "A", ":", "1", "B", ":">>

UserNames == {NoStringAttr, Attr(IdUpperA), Attr(IdUnregistered), Attr(IdNotAMac)}

PortTypes == {NoPortAttr, Attr(NASPortType_Value_Ethernet),
              Attr(NASPortType_Value_WirelessOther),
              Attr(NASPortType_Value_Wireless80211)}

CalledStationIDs ==
    {NoStringAttr,
     Attr(NetNa),                          \* "Na"
     Attr(ApPrefix \o NetNb),              \* "0A-1B:Nb"
     Attr(ApColonPrefix \o NetNa),         \* "0A:1B:Na"
     Attr(ApPrefix \o <<"n", "a">>),       \* "0A-1B:na"
     Attr(ApPrefix \o <<"N">>),            \* "0A-1B:N"
     Attr(ApPrefix)}                       \* "0A-1B:"

NoPacket == [UserName |-> NoStringAttr, NASPortType |-> NoPortAttr,
             CalledStationID |-> NoStringAttr]

\* ------------------------------------------------------------------------
\* State
\* ------------------------------------------------------------------------

VARIABLES
    store,          \* the database the server was opened on
    pc,             \* where radiusHandler stands: "idle", "switch", "verify",
                    \* "respond", "done", "panic"
    request,        \* r.Packet, the request being handled (the last one handled)
    mac,            \* radiusHandler's mac
    validFormat,    \* radiusHandler's validFormat
    requestedSSID,  \* radiusHandler's requestedSSID
    lookups,        \* number of GetMACRecord calls made for this request
    fault,          \* the storage fault that struck this request's lookup
    record,         \* record, as returned by GetMACRecord
    err,            \* err, as returned by GetMACRecord
    code,           \* radiusHandler's code
    response,       \* the responses written for this request, in order
    arg,            \* the string handed to the address helpers
    calls,          \* the helper calls made on it, in order: function, input, output
    serve,          \* per server, where its serve goroutine stands: "starting",
                    \* "serving", "failed", "stopped", "done"
    shutdownRequested, \* per server, whether Shutdown was called on it
    wait,           \* the counter of main's sync.WaitGroup
    mainpc,         \* main: "wait" (blocked in wait.Wait) or "exited"
    sigpc,          \* the signal goroutine: "spawned", "recv", "webui_stop",
                    \* "radius_stop", "shutdown_wait", "end"
    dropped,        \* whether a signal was delivered and not received
    inflight,       \* per handler goroutine of the RADIUS server, its request
                    \* and locals
    written,        \* per handler goroutine, the responses it wrote, in order
    mux,            \* holder of the database mutex, 0 when unlocked
    stalled,        \* whether the store has stopped answering queries
    deleted,        \* the device rows deleted through the Web UI so far, each
                    \* with the store as it was before
    adminErr,       \* the error of the last delete operation
    sequence,       \* per table, the last id its autoincrement key gave out
    lastOp,         \* the last operation of the Web UI's console: its name, its
                    \* form values and the store it started from
    lookup,         \* the GetMACRecord call under way while the console writes:
                    \* the statement it stands before, what it read so far,
                    \* and the stores that existed during the call
    dbop,           \* per goroutine, the macdatabase operation it is in and
                    \* where it stands in it
    sessions        \* per browser session, its values and the outcome of its
                    \* last request

handlerVars == <<store, pc, request, mac, validFormat, requestedSSID, lookups, fault,
                 record, err, code, response>>
helperVars == <<arg, calls>>
serverVars == <<serve, shutdownRequested, wait, mainpc, sigpc, dropped, inflight,
                written, mux, stalled>>
adminVars == <<deleted, adminErr>>
consoleVars == <<sequence, lastOp, lookup, dbop, sessions>>
vars == <<handlerVars, helperVars, serverVars, adminVars, consoleVars>>

\* The two servers main starts.
Servers == {"radius", "webui"}

\* The handler goroutines of the RADIUS server that may run at one time.
Handlers == {1, 2}

\* A handler goroutine that is not running.
IdleHandler == [pc |-> "idle", request |-> NoPacket, mac |-> <<>>, requestedSSID |-> <<>>,
                fault |-> "none", err |-> ErrNil, code |-> CodeAccessReject,
                late |-> FALSE]

\* No process is running: the state of the process part of the model in the
\* specifications that are about one call of the handler or of a helper.
ServerOff ==
    /\ serve = [s \in Servers |-> "done"]
    /\ shutdownRequested = [s \in Servers |-> FALSE]
    /\ wait = 0
    /\ mainpc = "exited"
    /\ sigpc = "end"
    /\ dropped = FALSE
    /\ inflight = [h \in Handlers |-> IdleHandler]
    /\ written = [h \in Handlers |-> <<>>]
    /\ mux = 0
    /\ stalled = FALSE

\* The tables as AutoMigrate leaves them on a new database file: no rows.
NoStore == [macaddress |-> {}, devicegroup |-> {}, ssid |-> {},
            macaddress_devicegroup |-> {}, group_ssid |-> {}]

\* The autoincrement keys of a new database file.
NoSequence == [macaddress |-> 0, devicegroup |-> 0, ssid |-> 0]

\* No operation of the console was made yet.
NoOperation == [name |-> "none", address |-> <<>>, id |-> 0, ids |-> <<>>, groupName |-> "",
                before |-> NoStore]

\* No GetMACRecord call is under way.
NoLookup == [pc |-> "idle", m |-> <<>>, requested |-> <<>>, id |-> 0, devicegroup |-> {},
             ssid |-> {}, err |-> ErrNil, code |-> CodeAccessReject, moments |-> {}]

\* A goroutine that is in no macdatabase operation.
NoDbOp == [op |-> "none", pc |-> "idle", err |-> ErrNil]

\* The browser sessions of the console.
Browsers == {1, 2}

\* sess.Values without the key "username".
NoUsername == [present |-> FALSE, value |-> <<>>]

\* No request was made.
NoRequest == [kind |-> "none", username |-> <<>>, password |-> <<>>, failing |-> FALSE]

\* A session no request was made in: its values, the last request made in
\* it, that request's outcome, the username the session held before it, and
\* the last event that set or removed the username.
NoSession == [username |-> NoUsername, request |-> NoRequest, outcome |-> "none",
              before |-> NoUsername, since |-> "new"]

\* The console is not used: the state of the console part of the model in
\* the specifications that are about the RADIUS side alone.
ConsoleOff ==
    /\ sequence = NoSequence
    /\ lastOp = NoOperation
    /\ lookup = NoLookup
    /\ dbop = [g \in Handlers |-> NoDbOp]
    /\ sessions = [b \in Browsers |-> NoSession]

Init ==
    /\ ServerOff
    /\ deleted = {}
    /\ adminErr = ErrNil
    /\ ConsoleOff
    /\ store \in Stores
    /\ pc = "idle"
    /\ request = NoPacket
    /\ mac = <<>>
    /\ validFormat = FALSE
    /\ requestedSSID = <<>>
    /\ lookups = 0
    /\ fault = "none"
    /\ record = NoRecord
    /\ err = ErrNil
    /\ code = CodeAccessReject
    /\ response = <<>>
    /\ arg = <<>>
    /\ calls = <<>>

\* radiusHandler, lines 59-78: a packet arrives and the handler reads its
\* attributes, normalizes the user name, checks its format and takes the last
\* part of the Called-Station-Id.  Indexing an empty list of parts panics.
Receive(packet) ==
    /\ pc = "idle"
    /\ request' = packet
    /\ LET username == UserName_GetString(packet)
           calledStationID == CalledStationID_GetString(packet)
           csiParts == handlerCsiParts(calledStationID)
       IN  /\ mac' = handlerMAC(username)
           /\ validFormat' = handlerValidFormat(handlerMAC(username))
           /\ IF Len(csiParts) = 0
              THEN /\ requestedSSID' = <<>>
                   /\ pc' = "panic"
              ELSE /\ requestedSSID' = csiParts[Len(csiParts)]
                   /\ pc' = "switch"
    /\ code' = CodeAccessReject
    /\ lookups' = 0
    /\ fault' = "none"
    /\ record' = NoRecord
    /\ err' = ErrNil
    /\ response' = <<>>
    /\ UNCHANGED <<store, helperVars, serverVars, adminVars, consoleVars>>

\* radiusHandler, lines 81-82: the port type is not a wireless one.
SwitchInvalidPortType ==
    /\ pc = "switch"
    /\ notWirelessPort(NASPortType_Get(request))
    /\ pc' = "respond"
    /\ UNCHANGED <<store, request, mac, validFormat, requestedSSID, lookups, fault,
                   record, err, code, response,
                   helperVars, serverVars, adminVars, consoleVars>>

\* radiusHandler, lines 83-84: the user name is no MAC address.
SwitchInvalidFormat ==
    /\ pc = "switch"
    /\ ~notWirelessPort(NASPortType_Get(request))
    /\ ~validFormat
    /\ pc' = "respond"
    /\ UNCHANGED <<store, request, mac, validFormat, requestedSSID, lookups, fault,
                   record, err, code, response,
                   helperVars, serverVars, adminVars, consoleVars>>

\* The rows a lookup has read when fault f ends it: a fault while the rows of
\* a statement are read leaves any proper subset of them (the order of the
\* rows is the database's choice); nothing is left to choose otherwise.
RowsRead(f, point, rows) ==
    IF f = point THEN (SUBSET rows) \ {rows} ELSE {{}}

\* radiusHandler, lines 85-86: the default case calls GetMACRecord, which
\* runs to its return under the database mutex.  A storage fault is drawn
\* among those this lookup can meet: the statements after the first are
\* reached only when the device row was found.
SwitchLookup ==
    /\ pc = "switch"
    /\ ~notWirelessPort(NASPortType_Get(request))
    /\ validFormat
    /\ LET dev == SelectDevice(store, mac)
           id == IF dev = {} THEN 0 ELSE (CHOOSE d \in dev : TRUE).id
       IN  \E f \in FaultPoints :
             /\ f \notin {"none", "prepare1", "queryrow1"} => dev # {}
             /\ \E groupsRead \in RowsRead(f, "rows2", SelectGroups(store, id)) :
                  \E ssidsRead \in RowsRead(f, "rows3", SelectSsids(store, id)) :
                     LET res == GetMACRecord(store, mac, f, groupsRead, ssidsRead)
                     IN  /\ fault' = f
                         /\ record' = res.record
                         /\ err' = res.err
    /\ lookups' = lookups + 1
    /\ pc' = "verify"
    /\ UNCHANGED <<store, request, mac, validFormat, requestedSSID, code, response,
                   helperVars, serverVars, adminVars, consoleVars>>

\* radiusHandler, lines 86-98: the lookup's error is logged, or the record's
\* networks are compared with the requested one.
VerifySSID ==
    /\ pc = "verify"
    /\ code' = verifySSID(record, err, requestedSSID)
    /\ pc' = "respond"
    /\ UNCHANGED <<store, request, mac, validFormat, requestedSSID, lookups, fault,
                   record, err, response,
                   helperVars, serverVars, adminVars, consoleVars>>

\* Respond for a handler that has also written a response inside the branch.
RespondTwice ==
    /\ pc = "respond"
    /\ response' = response \o <<[code |-> code], [code |-> code]>>
    /\ pc' = "done"
    /\ UNCHANGED <<store, request, mac, validFormat, requestedSSID, lookups, fault,
                   record, err, code,
                   helperVars, serverVars, adminVars, consoleVars>>

\* radiusHandler, line 101: w.Write(r.Response(code)), and the handler returns.
Respond ==
    /\ pc = "respond"
    /\ response' = Append(response, [code |-> code])
    /\ pc' = "done"
    /\ UNCHANGED <<store, request, mac, validFormat, requestedSSID, lookups, fault,
                   record, err, code,
                   helperVars, serverVars, adminVars, consoleVars>>

\* The handler's goroutine is gone; the server waits for the next packet.
Return ==
    /\ pc = "done"
    /\ pc' = "idle"
    /\ request' = NoPacket
    /\ mac' = <<>>
    /\ validFormat' = FALSE
    /\ requestedSSID' = <<>>
    /\ lookups' = 0
    /\ fault' = "none"
    /\ record' = NoRecord
    /\ err' = ErrNil
    /\ code' = CodeAccessReject
    /\ response' = <<>>
    /\ UNCHANGED <<store, helperVars, serverVars, adminVars, consoleVars>>

Next ==
    \/ \E u \in UserNames : \E p \in PortTypes : \E c \in CalledStationIDs :
          Receive([UserName |-> u, NASPortType |-> p, CalledStationID |-> c])
    \/ SwitchInvalidPortType
    \/ SwitchInvalidFormat
    \/ SwitchLookup
    \/ VerifySSID
    \/ Respond
    \/ Return

Spec == Init /\ [][Next]_vars

\* ------------------------------------------------------------------------
\* The address helpers of utils.go, applied to enumerated strings
\* ------------------------------------------------------------------------

\* Most helper calls made in a row on one string.
MaxCalls == 2

HelperAlphabet == {"A", "a", "0", "g", ":", "-", ".", " "}

\* Every string over the alphabet of at most MaxLen characters.
ShortStrings == UNION {[1..n -> HelperAlphabet] : n \in 0..MaxLen}

\* "AA:BB-CC.DD:EE:FF"
IdMixed == <<"A", "A", ":", "B", "B", "-", "C", "C", ".", "D", "D", ":", "E", "E", ":", "F", "F">>

\* Strings around the valid form: MacA with at most one character put before
\* it and after it, MacA with one character replaced, the prefixes of MacA,
\* MacA upper-cased and MacA followed by a line feed.
NearMacs ==
    {p \o MacA \o s : p, s \in {<<>>} \cup {<<c>> : c \in HelperAlphabet}}
        \cup {[MacA EXCEPT ![i] = c] : i \in 1..Len(MacA), c \in HelperAlphabet}
        \cup {SubSeq(MacA, 1, n) : n \in 0..Len(MacA)}
        \cup {ToUpper(MacA), MacA \o <<"\n">>}

HelperInputs ==
    ShortStrings \cup NearMacs
        \cup {IdUpperA, IdMixed, IdDottedB, MacA, MacB, IdUnregistered, IdNotAMac}

EmptyStore == [macaddress |-> {}, devicegroup |-> GroupRows, ssid |-> SsidRows,
               macaddress_devicegroup |-> {}, group_ssid |-> {}]

InitHelpers ==
    /\ ServerOff
    /\ deleted = {}
    /\ adminErr = ErrNil
    /\ ConsoleOff
    /\ store = EmptyStore
    /\ pc = "idle"
    /\ request = NoPacket
    /\ mac = <<>>
    /\ validFormat = FALSE
    /\ requestedSSID = <<>>
    /\ lookups = 0
    /\ fault = "none"
    /\ record = NoRecord
    /\ err = ErrNil
    /\ code = CodeAccessReject
    /\ response = <<>>
    /\ arg \in HelperInputs
    /\ calls = <<>>

\* What the next call is made on: the string itself, or the previous call's
\* output.
NextInputs ==
    {arg} \cup (IF calls = <<>> \/ calls[Len(calls)].fn = "isValidMACFormat"
                THEN {} ELSE {calls[Len(calls)].output})

\* utils.go: a call of normalizeMACAddress.
CallNormalize ==
    /\ Len(calls) < MaxCalls
    /\ \E x \in NextInputs :
          calls' = Append(calls, [fn |-> "normalizeMACAddress", input |-> x,
                                  output |-> normalizeMACAddress(x)])
    /\ UNCHANGED <<arg, handlerVars, serverVars, adminVars, consoleVars>>

\* radius.go, lines 65-71: the normalization radiusHandler does inline.
CallHandlerMAC ==
    /\ Len(calls) < MaxCalls
    /\ \E x \in NextInputs :
          calls' = Append(calls, [fn |-> "handlerMAC", input |-> x,
                                  output |-> handlerMAC(x)])
    /\ UNCHANGED <<arg, handlerVars, serverVars, adminVars, consoleVars>>

\* utils.go: a call of isValidMACFormat.
CallIsValid ==
    /\ Len(calls) < MaxCalls
    /\ \E x \in NextInputs :
          calls' = Append(calls, [fn |-> "isValidMACFormat", input |-> x,
                                  output |-> isValidMACFormat(x)])
    /\ UNCHANGED <<arg, handlerVars, serverVars, adminVars, consoleVars>>

\* utils.go: a call of prettyPrintMACAddress.
CallPrettyPrint ==
    /\ Len(calls) < MaxCalls
    /\ \E x \in NextInputs :
          calls' = Append(calls, [fn |-> "prettyPrintMACAddress", input |-> x,
                                  output |-> prettyPrintMACAddress(x)])
    /\ UNCHANGED <<arg, handlerVars, serverVars, adminVars, consoleVars>>

NextHelpers ==
    \/ CallNormalize
    \/ CallHandlerMAC
    \/ CallIsValid
    \/ CallPrettyPrint

SpecHelpers == InitHelpers /\ [][NextHelpers]_vars

\* ------------------------------------------------------------------------
\* The process: main, the two serve goroutines, the signal goroutine and the
\* handler goroutines of the RADIUS server
\* ------------------------------------------------------------------------

\* The store the process runs on: "aabbccddeeff" is in group Staff, Staff
\* authorizes "Na"; "0a1b2c3d4e5f" is in no group.
ServerStore == [macaddress |-> DeviceRows, devicegroup |-> GroupRows, ssid |-> SsidRows,
                macaddress_devicegroup |-> {<<1, 1>>}, group_ssid |-> {<<1, 1>>}]

\* The requests sent to the running server: one per branch of the handler.
\* Identifier is the packet's identifier, which the response copies.
ServerPackets(id) ==
    { [UserName |-> Attr(IdUpperA), NASPortType |-> Attr(NASPortType_Value_Ethernet),
       CalledStationID |-> Attr(ApPrefix \o NetNa), Identifier |-> id],
      [UserName |-> Attr(IdNotAMac), NASPortType |-> Attr(NASPortType_Value_Wireless80211),
       CalledStationID |-> Attr(ApPrefix \o NetNa), Identifier |-> id],
      [UserName |-> Attr(IdUnregistered), NASPortType |-> Attr(NASPortType_Value_Wireless80211),
       CalledStationID |-> Attr(ApPrefix \o NetNa), Identifier |-> id],
      [UserName |-> Attr(IdUpperA), NASPortType |-> Attr(NASPortType_Value_Wireless80211),
       CalledStationID |-> Attr(ApPrefix \o NetNa), Identifier |-> id],
      [UserName |-> Attr(IdUpperA), NASPortType |-> Attr(NASPortType_Value_Wireless80211),
       CalledStationID |-> Attr(ApPrefix \o NetNb), Identifier |-> id] }

\* server.go, lines 24-53: main has opened the store, added 1 to the
\* WaitGroup for each server and started it, registered the signal channel,
\* started the signal goroutine and is about to block in wait.Wait.  The
\* goroutines have been created and have not run yet.
InitServer ==
    /\ store = ServerStore
    /\ pc = "idle"
    /\ request = NoPacket
    /\ mac = <<>>
    /\ validFormat = FALSE
    /\ requestedSSID = <<>>
    /\ lookups = 0
    /\ fault = "none"
    /\ record = NoRecord
    /\ err = ErrNil
    /\ code = CodeAccessReject
    /\ response = <<>>
    /\ arg = <<>>
    /\ calls = <<>>
    /\ deleted = {}
    /\ adminErr = ErrNil
    /\ ConsoleOff
    /\ serve = [s \in Servers |-> "starting"]
    /\ shutdownRequested = [s \in Servers |-> FALSE]
    /\ wait = Cardinality(Servers)
    /\ mainpc = "wait"
    /\ sigpc = "spawned"
    /\ dropped = FALSE
    /\ inflight = [h \in Handlers |-> IdleHandler]
    /\ written = [h \in Handlers |-> <<>>]
    /\ mux = 0
    /\ stalled = FALSE

\* The process has not exited: its goroutines can run.
Alive == mainpc = "wait"

\* radius.go, line 44 / webui.go, line 122: the serve goroutine calls
\* ListenAndServe (Start).  Binding the address can fail; after Shutdown the
\* call does not serve and returns ErrServerShutdown (ErrServerClosed).
ServeListen(s) ==
    /\ Alive
    /\ serve[s] = "starting"
    /\ \E next \in (IF shutdownRequested[s] THEN {"stopped", "failed"}
                      ELSE {"serving", "failed"}) :
          serve' = [serve EXCEPT ![s] = next]
    /\ UNCHANGED <<handlerVars, helperVars, adminVars, consoleVars, shutdownRequested, wait, mainpc,
                   sigpc, dropped, inflight, written, mux, stalled>>

\* radius.go, line 44 / webui.go, line 122: Shutdown has closed the listener,
\* the serve loop's read fails and ListenAndServe (Start) returns
\* ErrServerShutdown (ErrServerClosed); it does not wait for the handlers it
\* started.
ServeReturn(s) ==
    /\ Alive
    /\ serve[s] = "serving"
    /\ shutdownRequested[s]
    /\ serve' = [serve EXCEPT ![s] = "stopped"]
    /\ UNCHANGED <<handlerVars, helperVars, adminVars, consoleVars, shutdownRequested, wait, mainpc,
                   sigpc, dropped, inflight, written, mux, stalled>>

\* radius.go, lines 44-50 / webui.go, lines 122-128: the result is logged and
\* the goroutine calls wait.Done.
ServeDone(s) ==
    /\ Alive
    /\ serve[s] \in {"stopped", "failed"}
    /\ serve' = [serve EXCEPT ![s] = "done"]
    /\ wait' = wait - 1
    /\ UNCHANGED <<handlerVars, helperVars, adminVars, consoleVars, shutdownRequested, mainpc,
                   sigpc, dropped, inflight, written, mux, stalled>>

\* server.go, line 53: wait.Wait returns when the counter is zero; main
\* returns and the process exits, with every goroutine still running.
MainWaitReturn ==
    /\ mainpc = "wait"
    /\ wait = 0
    /\ mainpc' = "exited"
    /\ UNCHANGED <<handlerVars, helperVars, adminVars, consoleVars, serve, shutdownRequested, wait,
                   sigpc, dropped, inflight, written, mux, stalled>>

\* server.go, line 45: the signal goroutine reaches the receive on ctrlc.
SigAwait ==
    /\ Alive
    /\ sigpc = "spawned"
    /\ sigpc' = "recv"
    /\ UNCHANGED <<handlerVars, helperVars, adminVars, consoleVars, serve, shutdownRequested, wait,
                   mainpc, dropped, inflight, written, mux, stalled>>

\* server.go, lines 42-45: an interrupt or SIGTERM is delivered.  ctrlc has
\* no buffer and os/signal does not block to send: the signal is handed over
\* if the goroutine is waiting in the receive, and is dropped otherwise.
SignalDelivered ==
    /\ Alive
    /\ IF sigpc = "recv"
       THEN sigpc' = "webui_stop" /\ UNCHANGED dropped
       ELSE dropped' = TRUE /\ UNCHANGED sigpc
    /\ UNCHANGED <<handlerVars, helperVars, adminVars, consoleVars, serve, shutdownRequested, wait,
                   mainpc, inflight, written, mux, stalled>>

\* server.go, line 48 and webui.go, lines 133-138: webui.Stop calls Shutdown
\* with a deadline of 5 seconds, so it returns.
SigStopWebUI ==
    /\ Alive
    /\ sigpc = "webui_stop"
    /\ shutdownRequested' = [shutdownRequested EXCEPT !["webui"] = TRUE]
    /\ sigpc' = "radius_stop"
    /\ UNCHANGED <<handlerVars, helperVars, adminVars, consoleVars, serve, wait, mainpc, dropped,
                   inflight, written, mux, stalled>>

\* server.go, line 49 and radius.go, lines 55-57: radius.Stop calls Shutdown,
\* which marks the server as shut down, closes its listener and then waits,
\* without a deadline, for the serve loop and the handlers to finish.
SigStopRadius ==
    /\ Alive
    /\ sigpc = "radius_stop"
    /\ shutdownRequested' = [shutdownRequested EXCEPT !["radius"] = TRUE]
    /\ sigpc' = "shutdown_wait"
    /\ UNCHANGED <<handlerVars, helperVars, adminVars, consoleVars, serve, wait, mainpc, dropped,
                   inflight, written, mux, stalled>>

\* radius.go, line 56: Shutdown returns once the serve loop and every handler
\* have finished; the signal goroutine ends.
SigShutdownReturn ==
    /\ Alive
    /\ sigpc = "shutdown_wait"
    /\ serve["radius"] # "serving"
    /\ \A h \in Handlers : inflight[h].pc \in {"idle", "done"}
    /\ sigpc' = "end"
    /\ UNCHANGED <<handlerVars, helperVars, adminVars, consoleVars, serve, shutdownRequested, wait,
                   mainpc, dropped, inflight, written, mux, stalled>>

\* radiusHandler, line 101: r.Response(code) is a packet with the code, the
\* request's identifier and no attributes.
Response(packet, c) == [Code |-> c, Identifier |-> packet.Identifier, Attributes |-> {}]

\* The serve loop of the RADIUS server reads a packet and starts a handler
\* goroutine for it; radiusHandler, lines 59-84: the handler reads the
\* attributes and takes the branch of the switch.  The two early branches
\* leave the code at Access-Reject; the default branch goes on to the lookup.
HReceive(h, packet) ==
    /\ Alive
    /\ serve["radius"] = "serving"
    /\ ~shutdownRequested["radius"]
    /\ inflight[h].pc = "idle"
    /\ LET m == handlerMAC(UserName_GetString(packet))
           csiParts == handlerCsiParts(CalledStationID_GetString(packet))
           early == \/ notWirelessPort(NASPortType_Get(packet))
                    \/ ~handlerValidFormat(m)
       IN  inflight' = [inflight EXCEPT ![h] =
                           [pc |-> IF early THEN "respond" ELSE "lock",
                            request |-> packet, mac |-> m,
                            requestedSSID |-> csiParts[Len(csiParts)],
                            fault |-> "none", err |-> ErrNil,
                            code |-> CodeAccessReject,
                            late |-> shutdownRequested["radius"]]]
    /\ written' = [written EXCEPT ![h] = <<>>]
    /\ UNCHANGED <<handlerVars, helperVars, adminVars, consoleVars, serve, shutdownRequested, wait,
                   mainpc, sigpc, dropped, mux, stalled>>

\* GetMACRecord, lines 291-292: db.mux.Lock().
HLock(h) ==
    /\ Alive
    /\ inflight[h].pc = "lock"
    /\ mux = 0
    /\ mux' = h
    /\ inflight' = [inflight EXCEPT ![h].pc = "query"]
    /\ UNCHANGED <<handlerVars, helperVars, adminVars, consoleVars, serve, shutdownRequested, wait,
                   mainpc, sigpc, dropped, written, stalled>>

\* HQuery for a lookup that removes the device row it has read.
HQueryConsuming(h) ==
    /\ Alive
    /\ inflight[h].pc = "query"
    /\ mux = h
    /\ ~stalled
    /\ \E f \in {"none", "prepare1"} :
          LET res == GetMACRecord(store, inflight[h].mac, f, {}, {})
          IN  inflight' = [inflight EXCEPT ![h].pc = "respond", ![h].fault = f,
                              ![h].err = res.err,
                              ![h].code = verifySSID(res.record, res.err,
                                                     inflight[h].requestedSSID)]
    /\ mux' = 0
    /\ store' = [store EXCEPT !.macaddress =
                    {d \in store.macaddress : d.macaddress # inflight[h].mac}]
    /\ UNCHANGED <<pc, request, mac, validFormat, requestedSSID, lookups, fault, record,
                   err, code, response, helperVars, adminVars, consoleVars, serve, shutdownRequested,
                   wait, mainpc, sigpc, dropped, written, stalled>>

\* GetMACRecord, lines 294-337, and radiusHandler, lines 85-98: the
\* statements run against the store, with no deadline, and return, the mutex
\* is unlocked, and the handler decides the code from the result.  A store
\* that has stopped answering never lets the statements return.
HQuery(h) ==
    /\ Alive
    /\ inflight[h].pc = "query"
    /\ mux = h
    /\ ~stalled
    /\ \E f \in {"none", "prepare1"} :
          LET res == GetMACRecord(store, inflight[h].mac, f, {}, {})
          IN  inflight' = [inflight EXCEPT ![h].pc = "respond", ![h].fault = f,
                              ![h].err = res.err,
                              ![h].code = verifySSID(res.record, res.err,
                                                     inflight[h].requestedSSID)]
    /\ mux' = 0
    /\ UNCHANGED <<handlerVars, helperVars, adminVars, consoleVars, serve, shutdownRequested, wait,
                   mainpc, sigpc, dropped, written, stalled>>

\* HRespond for a handler that tells the client why it was rejected, in a
\* Reply-Message attribute.
HRespondWithReason(h) ==
    /\ Alive
    /\ inflight[h].pc = "respond"
    /\ written' = [written EXCEPT ![h] =
                      Append(@, [Response(inflight[h].request, inflight[h].code)
                                    EXCEPT !.Attributes = {<<"Reply-Message", inflight[h].err>>}])]
    /\ inflight' = [inflight EXCEPT ![h].pc = "done"]
    /\ UNCHANGED <<handlerVars, helperVars, adminVars, consoleVars, serve, shutdownRequested, wait,
                   mainpc, sigpc, dropped, mux, stalled>>

\* radiusHandler, line 101: w.Write(r.Response(code)); the handler returns.
HRespond(h) ==
    /\ Alive
    /\ inflight[h].pc = "respond"
    /\ written' = [written EXCEPT ![h] =
                      Append(@, Response(inflight[h].request, inflight[h].code))]
    /\ inflight' = [inflight EXCEPT ![h].pc = "done"]
    /\ UNCHANGED <<handlerVars, helperVars, adminVars, consoleVars, serve, shutdownRequested, wait,
                   mainpc, sigpc, dropped, mux, stalled>>

\* The handler goroutine is gone.
HReturn(h) ==
    /\ Alive
    /\ inflight[h].pc = "done"
    /\ inflight' = [inflight EXCEPT ![h] = IdleHandler]
    /\ written' = [written EXCEPT ![h] = <<>>]
    /\ UNCHANGED <<handlerVars, helperVars, adminVars, consoleVars, serve, shutdownRequested, wait,
                   mainpc, sigpc, dropped, mux, stalled>>

\* The store stops answering: from now on no statement returns.
StoreStalls ==
    /\ Alive
    /\ ~stalled
    /\ stalled' = TRUE
    /\ UNCHANGED <<handlerVars, helperVars, adminVars, consoleVars, serve, shutdownRequested, wait,
                   mainpc, sigpc, dropped, inflight, written, mux>>

NextServer ==
    \/ \E s \in Servers : ServeListen(s)
    \/ \E s \in Servers : ServeReturn(s)
    \/ \E s \in Servers : ServeDone(s)
    \/ MainWaitReturn
    \/ SigAwait
    \/ SignalDelivered
    \/ SigStopWebUI
    \/ SigStopRadius
    \/ SigShutdownReturn
    \/ \E h \in Handlers : \E packet \in ServerPackets(h) : HReceive(h, packet)
    \/ \E h \in Handlers : HLock(h)
    \/ \E h \in Handlers : HQuery(h)
    \/ \E h \in Handlers : HRespond(h)
    \/ \E h \in Handlers : HReturn(h)
    \/ StoreStalls

\* The steps of serve goroutine s, of the signal goroutine and of handler
\* goroutine h once it has the mutex or does not need it.
ServeStep(s) == ServeListen(s) \/ ServeReturn(s) \/ ServeDone(s)
SigStep == SigAwait \/ SigStopWebUI \/ SigStopRadius \/ SigShutdownReturn
HStep(h) == HQuery(h) \/ HRespond(h) \/ HReturn(h)

\* The scheduler runs every goroutine that can take a step; a goroutine
\* waiting for the mutex gets it when it is unlocked again and again
\* (sync.Mutex hands the lock to a starving waiter).  Signals, packets and the
\* store's stalling are the environment's and are not owed.
FairServer ==
    /\ \A s \in Servers : WF_vars(ServeStep(s))
    /\ WF_vars(MainWaitReturn)
    /\ WF_vars(SigStep)
    /\ \A h \in Handlers : SF_vars(HLock(h))
    /\ \A h \in Handlers : WF_vars(HStep(h))

SpecServer == InitServer /\ [][NextServer]_vars /\ FairServer

\* ------------------------------------------------------------------------
\* Deleting devices while requests are served
\* ------------------------------------------------------------------------

\* The ids a delete is asked for: those of the device rows and one that no
\* row has.
DeviceIds == {d.id : d \in DeviceRows} \cup {3}

ErrRecordNotFound == "record not found"
ErrNoSuchTable == "no such table: macaddresses"

\* What one lookup run on the store s alone returns for the address m: the
\* device rows and the networks of their groups.
Snapshot(s, m) ==
    [device |-> SelectDevice(s, m),
     ssid |-> UNION {SelectSsids(s, d.id) : d \in SelectDevice(s, m)}]

\* A GetMACRecord call is between its first and its last statement.
LookupRunning == lookup.pc \in {"stmt1", "stmt2", "stmt3"}

\* The console writes through its own database handle and does not take the
\* mutex of macdatabase: a write is not held back by a lookup under way.  The
\* lookup record notes the store the write leaves as one that existed
\* during the call.
DuringLookup(after) ==
    lookup' = IF LookupRunning
              THEN [lookup EXCEPT !.moments = @ \cup {Snapshot(after, lookup.m)}]
              ELSE lookup

\* webui-handlers.go, lines 173-204: deviceDeleteHandler.  The device with
\* the id is fetched; when there is none an error is flashed; otherwise
\* DB.Delete(&device) deletes the device's row.  Delete issues one statement
\* on the devices table and nothing on the join table, which has no foreign
\* key to cascade from.
deviceDeleteHandler(id) ==
    /\ pc = "idle"
    /\ LET found == {d \in store.macaddress : d.id = id}
       IN  IF found = {}
           THEN /\ adminErr' = ErrRecordNotFound
                /\ UNCHANGED <<store, deleted>>
           ELSE /\ store' = [store EXCEPT !.macaddress = @ \ found]
                /\ deleted' = deleted \cup {[row |-> d, before |-> store] : d \in found}
                /\ adminErr' = ErrNil
    /\ lastOp' = [name |-> "deviceDelete", address |-> <<>>, id |-> id, ids |-> <<>>,
                  groupName |-> "", before |-> store]
    /\ UNCHANGED <<pc, request, mac, validFormat, requestedSSID, lookups, fault, record,
                   err, code, response, helperVars, serverVars, sequence, dbop, sessions>>
    /\ DuringLookup(store')

\* radius.go, lines 252-268: RemoveMACAddress prepares a DELETE on the table
\* "macaddresses"; the schema's table is "macaddress", so Prepare fails and
\* the error is returned with nothing deleted.
RemoveMACAddress(macaddress) ==
    /\ pc = "idle"
    /\ adminErr' = ErrNoSuchTable
    /\ UNCHANGED <<handlerVars, helperVars, serverVars, deleted, consoleVars>>

\* The stores a delete is tried on: both devices are stored.
AdminStores == {s \in Stores : s.macaddress = DeviceRows}

\* The requests sent around a delete: wireless, for either stored device and
\* either named network.
AdminPackets ==
    {[UserName |-> Attr(u), NASPortType |-> Attr(NASPortType_Value_Wireless80211),
      CalledStationID |-> Attr(ApPrefix \o n)] :
        u \in {IdUpperA, IdDottedB}, n \in {NetNa, NetNb}}

InitAdmin ==
    /\ ServerOff
    /\ deleted = {}
    /\ adminErr = ErrNil
    /\ ConsoleOff
    /\ store \in AdminStores
    /\ pc = "idle"
    /\ request = NoPacket
    /\ mac = <<>>
    /\ validFormat = FALSE
    /\ requestedSSID = <<>>
    /\ lookups = 0
    /\ fault = "none"
    /\ record = NoRecord
    /\ err = ErrNil
    /\ code = CodeAccessReject
    /\ response = <<>>
    /\ arg = <<>>
    /\ calls = <<>>

NextAdmin ==
    \/ \E id \in DeviceIds : deviceDeleteHandler(id)
    \/ \E d \in DeviceRows : RemoveMACAddress(d.macaddress)
    \/ \E packet \in AdminPackets : Receive(packet)
    \/ SwitchLookup
    \/ VerifySSID
    \/ Respond
    \/ Return

SpecAdmin == InitAdmin /\ [][NextAdmin]_vars

\* ------------------------------------------------------------------------
\* The console's create, update and delete operations
\* ------------------------------------------------------------------------

\* Most ids a table's autoincrement key gives out.
MaxId == 2

DigitValue == [c \in Digits |->
                 CASE c = "0" -> 0 [] c = "1" -> 1 [] c = "2" -> 2 [] c = "3" -> 3
                   [] c = "4" -> 4 [] c = "5" -> 5 [] c = "6" -> 6 [] c = "7" -> 7
                   [] c = "8" -> 8 [] c = "9" -> 9]

RECURSIVE DecimalValue(_)
DecimalValue(s) ==
    IF s = <<>> THEN 0
    ELSE 10 * DecimalValue(SubSeq(s, 1, Len(s) - 1)) + DigitValue[s[Len(s)]]

\* strconv.ParseUint(s, 10, 64): an error for the empty string and for any
\* character that is not a decimal digit (a sign included), otherwise the
\* value.  The form values of the model are far shorter than 64 bits.
ParseUint(s) ==
    IF s # <<>> /\ \A i \in 1..Len(s) : s[i] \in Digits
    THEN [ok |-> TRUE, value |-> DecimalValue(s)]
    ELSE [ok |-> FALSE, value |-> 0]

\* DB.Find(&group, groupID) on a zero-valued group: the row with the id, and
\* the group left zero-valued when no row has it.
FindGroup(s, id) ==
    IF \E g \in s.devicegroup : g.id = id
    THEN CHOOSE g \in s.devicegroup : g.id = id
    ELSE [id |-> 0, name |-> ""]

\* DB.Find(&network, networkID), likewise.
FindNetwork(s, id) ==
    IF \E n \in s.ssid : n.id = id
    THEN CHOOSE n \in s.ssid : n.id = id
    ELSE [id |-> 0, ssid |-> <<>>]

\* webui-handlers.go, lines 117-123 and 147-153: the loop over
\* devicegroups[].  A value that parses is looked up and the group appended,
\* found or not; a value that does not parse is skipped.
RECURSIVE FormGroups(_, _)
FormGroups(s, strs) ==
    IF strs = <<>> THEN <<>>
    ELSE LET p == ParseUint(Head(strs))
         IN  (IF p.ok THEN <<FindGroup(s, p.value)>> ELSE <<>>) \o FormGroups(s, Tail(strs))

\* webui-handlers.go, lines 240-246 and 270-276: the loop over networks[].
RECURSIVE FormNetworks(_, _)
FormNetworks(s, strs) ==
    IF strs = <<>> THEN <<>>
    ELSE LET p == ParseUint(Head(strs))
         IN  (IF p.ok THEN <<FindNetwork(s, p.value)>> ELSE <<>>)
                 \o FormNetworks(s, Tail(strs))

ErrInvalidFormat == "WEBUI: Invalid MAC address format provided"
ErrUniqueDevice == "UNIQUE constraint failed: devices.mac"
ErrUniqueGroup == "UNIQUE constraint failed: device_groups.name"
ErrUniqueNetwork == "UNIQUE constraint failed: networks.ssid"

\* A database inside a transaction: the tables, the autoincrement keys and
\* the first error of a statement.
Database(s, q) == [store |-> s, sequence |-> q, err |-> ErrNil]

\* The end of the transaction Create and Save run in: committed when no
\* statement failed, rolled back to the database it began on otherwise.
EndTransaction(begin, db) == IF db.err = ErrNil THEN db ELSE [begin EXCEPT !.err = db.err]

\* Saving a device's DeviceGroups after the device's own row: a group whose
\* primary key is zero is inserted (the name is UNIQUE), a group that has a
\* primary key is updated with the fields it was read with; either way the
\* join row of the device and the group is added when it is not there.
RECURSIVE SaveDeviceGroups(_, _, _)
SaveDeviceGroups(db, deviceId, groups) ==
    IF groups = <<>> \/ db.err # ErrNil THEN db
    ELSE LET g == Head(groups)
             id == db.sequence.devicegroup + 1
         IN  IF g.id # 0
             THEN SaveDeviceGroups(
                      [db EXCEPT !.store.macaddress_devicegroup = @ \cup {<<deviceId, g.id>>}],
                      deviceId, Tail(groups))
             ELSE IF \E x \in db.store.devicegroup : x.name = g.name
             THEN [db EXCEPT !.err = ErrUniqueGroup]
             ELSE SaveDeviceGroups(
                      [db EXCEPT !.store.devicegroup = @ \cup {[id |-> id, name |-> g.name]},
                                 !.store.macaddress_devicegroup = @ \cup {<<deviceId, id>>},
                                 !.sequence.devicegroup = id],
                      deviceId, Tail(groups))

\* Saving a group's Networks after the group's own row, likewise.
RECURSIVE SaveGroupNetworks(_, _, _)
SaveGroupNetworks(db, groupId, networks) ==
    IF networks = <<>> \/ db.err # ErrNil THEN db
    ELSE LET n == Head(networks)
             id == db.sequence.ssid + 1
         IN  IF n.id # 0
             THEN SaveGroupNetworks(
                      [db EXCEPT !.store.group_ssid = @ \cup {<<groupId, n.id>>}],
                      groupId, Tail(networks))
             ELSE IF \E x \in db.store.ssid : x.ssid = n.ssid
             THEN [db EXCEPT !.err = ErrUniqueNetwork]
             ELSE SaveGroupNetworks(
                      [db EXCEPT !.store.ssid = @ \cup {[id |-> id, ssid |-> n.ssid]},
                                 !.store.group_ssid = @ \cup {<<groupId, id>>},
                                 !.sequence.ssid = id],
                      groupId, Tail(networks))

\* DB.Create(&device): in one transaction, the device's row is inserted
\* (MAC is UNIQUE) and its DeviceGroups are saved.
CreateDevice(db, MAC, groups) ==
    LET id == db.sequence.macaddress + 1
    IN  IF \E d \in db.store.macaddress : d.macaddress = MAC
        THEN [db EXCEPT !.err = ErrUniqueDevice]
        ELSE EndTransaction(db,
                 SaveDeviceGroups(
                     [db EXCEPT !.store.macaddress = @ \cup {[id |-> id, macaddress |-> MAC]},
                                !.sequence.macaddress = id],
                     id, groups))

\* DB.Save(&device) of a device read from its row: in one transaction, the
\* row is updated with the fields it was read with and the DeviceGroups are
\* saved.
SaveDevice(db, device, groups) == EndTransaction(db, SaveDeviceGroups(db, device.id, groups))

\* DB.Create(&group): in one transaction, the group's row is inserted (Name
\* is UNIQUE and NOT NULL, which the empty string satisfies) and its Networks
\* are saved.
CreateGroup(db, name, networks) ==
    LET id == db.sequence.devicegroup + 1
    IN  IF \E g \in db.store.devicegroup : g.name = name
        THEN [db EXCEPT !.err = ErrUniqueGroup]
        ELSE EndTransaction(db,
                 SaveGroupNetworks(
                     [db EXCEPT !.store.devicegroup = @ \cup {[id |-> id, name |-> name]},
                                !.sequence.devicegroup = id],
                     id, networks))

\* DB.Save(&group) of a group read from its row.
SaveGroup(db, group, networks) == EndTransaction(db, SaveGroupNetworks(db, group.id, networks))

\* What an operation of the console leaves alone.
ConsoleUnchanged ==
    /\ DuringLookup(store')
    /\ UNCHANGED <<pc, request, mac, validFormat, requestedSSID, lookups, fault, record, err,
                   code, response, helperVars, serverVars, deleted, dbop, sessions>>

Operation(name, address, id, ids, groupName) ==
    [name |-> name, address |-> address, id |-> id, ids |-> ids, groupName |-> groupName,
     before |-> store]

\* The tables have room for the rows an operation may insert.
Room == \A t \in DOMAIN sequence : sequence[t] < MaxId

\* deviceCreateHandler without the return on an invalid address.
deviceCreateHandlerUnchecked(macaddress, devicegroups) ==
    /\ Room
    /\ LET db == CreateDevice(Database(store, sequence), normalizeMACAddress(macaddress),
                              FormGroups(store, devicegroups))
       IN  /\ store' = db.store
           /\ sequence' = db.sequence
           /\ adminErr' = db.err
    /\ lastOp' = Operation("deviceCreate", macaddress, 0, devicegroups, "")
    /\ ConsoleUnchanged

\* webui-handlers.go, lines 104-132: deviceCreateHandler.  The submitted
\* address is normalized and then validated; an invalid one is answered
\* before the database is touched.
deviceCreateHandler(macaddress, devicegroups) ==
    /\ Room
    /\ LET MAC == normalizeMACAddress(macaddress)
       IN  IF ~isValidMACFormat(MAC)
           THEN /\ adminErr' = ErrInvalidFormat
                /\ UNCHANGED <<store, sequence>>
           ELSE LET db == CreateDevice(Database(store, sequence), MAC,
                                       FormGroups(store, devicegroups))
                IN  /\ store' = db.store
                    /\ sequence' = db.sequence
                    /\ adminErr' = db.err
    /\ lastOp' = Operation("deviceCreate", macaddress, 0, devicegroups, "")
    /\ ConsoleUnchanged

\* webui.go, lines 319-347: devicesHandler, action "create".  The submitted
\* address is validated as it was sent and normalized afterwards.
devicesHandler(macaddress, devicegroups) ==
    /\ Room
    /\ IF ~isValidMACFormat(macaddress)
       THEN /\ adminErr' = ErrInvalidFormat
            /\ UNCHANGED <<store, sequence>>
       ELSE LET db == CreateDevice(Database(store, sequence),
                                   normalizeMACAddress(macaddress),
                                   FormGroups(store, devicegroups))
            IN  /\ store' = db.store
                /\ sequence' = db.sequence
                /\ adminErr' = db.err
    /\ lastOp' = Operation("devicesCreate", macaddress, 0, devicegroups, "")
    /\ ConsoleUnchanged

\* webui-handlers.go, lines 134-171: deviceUpdateHandler.  The device is
\* read without its groups, the submitted groups are appended and the device
\* is saved; its address is the one it was read with.
deviceUpdateHandler(id, devicegroups) ==
    /\ Room
    /\ LET found == {d \in store.macaddress : d.id = id}
       IN  IF found = {}
           THEN /\ adminErr' = ErrRecordNotFound
                /\ UNCHANGED <<store, sequence>>
           ELSE LET device == CHOOSE d \in found : TRUE
                    db == SaveDevice(Database(store, sequence), device,
                                     FormGroups(store, devicegroups))
                IN  /\ store' = db.store
                    /\ sequence' = db.sequence
                    /\ adminErr' = db.err
    /\ lastOp' = Operation("deviceUpdate", <<>>, id, devicegroups, "")
    /\ ConsoleUnchanged

\* webui-handlers.go, lines 232-255: groupCreateHandler.  The submitted name
\* is stored as it was sent.
groupCreateHandler(name, networks) ==
    /\ Room
    /\ LET db == CreateGroup(Database(store, sequence), name, FormNetworks(store, networks))
       IN  /\ store' = db.store
           /\ sequence' = db.sequence
           /\ adminErr' = db.err
    /\ lastOp' = Operation("groupCreate", <<>>, 0, networks, name)
    /\ ConsoleUnchanged

\* webui-handlers.go, lines 257-294: groupUpdateHandler.
groupUpdateHandler(id, networks) ==
    /\ Room
    /\ LET found == {g \in store.devicegroup : g.id = id}
       IN  IF found = {}
           THEN /\ adminErr' = ErrRecordNotFound
                /\ UNCHANGED <<store, sequence>>
           ELSE LET group == CHOOSE g \in found : TRUE
                    db == SaveGroup(Database(store, sequence), group,
                                    FormNetworks(store, networks))
                IN  /\ store' = db.store
                    /\ sequence' = db.sequence
                    /\ adminErr' = db.err
    /\ lastOp' = Operation("groupUpdate", <<>>, id, networks, "")
    /\ ConsoleUnchanged

\* webui-handlers.go, lines 296-327: groupDeleteHandler.  DB.Delete(&group)
\* deletes the group's row, as deviceDeleteHandler does the device's.
groupDeleteHandler(id) ==
    /\ LET found == {g \in store.devicegroup : g.id = id}
       IN  IF found = {}
           THEN /\ adminErr' = ErrRecordNotFound
                /\ UNCHANGED store
           ELSE /\ store' = [store EXCEPT !.devicegroup = @ \ found]
                /\ adminErr' = ErrNil
    /\ lastOp' = Operation("groupDelete", <<>>, id, <<>>, "")
    /\ UNCHANGED sequence
    /\ ConsoleUnchanged

\* The addresses submitted to the console: written with colons, normalized
\* already, written with dots, and one that is no address.
ConsoleAddresses == {IdUpperA, MacA, IdDottedB, IdNotAMac}

\* The ids submitted in devicegroups[] and networks[]: none, of a row, of no
\* row, one that is no number, and two of no row.
FormIdLists == {<<>>, <<<<"1">>>>, <<<<"9">>>>, <<<<"x">>>>, <<<<"9">>, <<"0">>>>}

\* The names submitted for a group.
FormNames == {"Staff", ""}

\* The ids an update or a delete is asked for.
FormRowIds == 1..MaxId

\* The databases the console is opened on: a new one, and one that holds a
\* device in a group with a network.
ConsoleDatabases ==
    {Database(NoStore, NoSequence),
     Database([macaddress |-> {[id |-> 1, macaddress |-> MacA]},
               devicegroup |-> {[id |-> 1, name |-> "Staff"]},
               ssid |-> {[id |-> 1, ssid |-> NetNa]},
               macaddress_devicegroup |-> {<<1, 1>>},
               group_ssid |-> {<<1, 1>>}],
              [macaddress |-> 1, devicegroup |-> 1, ssid |-> 1])}

InitConsole ==
    /\ ServerOff
    /\ deleted = {}
    /\ adminErr = ErrNil
    /\ \E db \in ConsoleDatabases : store = db.store /\ sequence = db.sequence
    /\ lastOp = NoOperation
    /\ lookup = NoLookup
    /\ dbop = [g \in Handlers |-> NoDbOp]
    /\ sessions = [b \in Browsers |-> NoSession]
    /\ pc = "idle"
    /\ request = NoPacket
    /\ mac = <<>>
    /\ validFormat = FALSE
    /\ requestedSSID = <<>>
    /\ lookups = 0
    /\ fault = "none"
    /\ record = NoRecord
    /\ err = ErrNil
    /\ code = CodeAccessReject
    /\ response = <<>>
    /\ arg = <<>>
    /\ calls = <<>>

NextConsole ==
    \/ \E a \in ConsoleAddresses, ids \in FormIdLists : deviceCreateHandler(a, ids)
    \/ \E a \in ConsoleAddresses, ids \in FormIdLists : devicesHandler(a, ids)
    \/ \E id \in FormRowIds, ids \in FormIdLists : deviceUpdateHandler(id, ids)
    \/ \E id \in FormRowIds : deviceDeleteHandler(id)
    \/ \E name \in FormNames, ids \in FormIdLists : groupCreateHandler(name, ids)
    \/ \E id \in FormRowIds, ids \in FormIdLists : groupUpdateHandler(id, ids)
    \/ \E id \in FormRowIds : groupDeleteHandler(id)

SpecConsole == InitConsole /\ [][NextConsole]_vars

\* ------------------------------------------------------------------------
\* A lookup while the console writes
\* ------------------------------------------------------------------------

\* What a lookup step leaves alone.
LookupUnchanged == UNCHANGED <<handlerVars, helperVars, serverVars, adminVars, sequence,
                               lastOp, dbop, sessions>>

\* radius.go, lines 290-294: GetMACRecord is called for the address m of a
\* request for the network requested, and takes the mutex.
GetMACRecordCall(m, requested) ==
    /\ lookup.pc \in {"idle", "answered"}
    /\ lookup' = [NoLookup EXCEPT !.pc = "stmt1", !.m = m, !.requested = requested,
                                  !.moments = {Snapshot(store, m)}]
    /\ LookupUnchanged

\* radius.go, lines 297-304: the first statement, on the store as it is now.
GetMACRecordDevice ==
    /\ lookup.pc = "stmt1"
    /\ LET rows == SelectDevice(store, lookup.m)
       IN  IF rows = {}
           THEN lookup' = [lookup EXCEPT !.pc = "returned", !.err = ErrNoRows]
           ELSE lookup' = [lookup EXCEPT !.pc = "stmt2",
                                         !.id = (CHOOSE d \in rows : TRUE).id]
    /\ LookupUnchanged

\* radius.go, lines 309-320: the second statement, on the store as it is now.
GetMACRecordGroups ==
    /\ lookup.pc = "stmt2"
    /\ lookup' = [lookup EXCEPT !.pc = "stmt3",
                                !.devicegroup = SelectGroups(store, lookup.id)]
    /\ LookupUnchanged

\* radius.go, lines 323-336: the third statement, on the store as it is now,
\* and the return of the record.
GetMACRecordSsids ==
    /\ lookup.pc = "stmt3"
    /\ lookup' = [lookup EXCEPT !.pc = "returned",
                                !.ssid = SelectSsids(store, lookup.id)]
    /\ LookupUnchanged

\* radius.go, lines 86-101: the handler decides on what the lookup returned
\* and writes the response.
LookupAnswered ==
    /\ lookup.pc = "returned"
    /\ lookup' = [lookup EXCEPT
                     !.pc = "answered",
                     !.code = verifySSID([macaddress |-> [id |-> lookup.id,
                                                          macaddress |-> lookup.m],
                                          devicegroup |-> lookup.devicegroup,
                                          ssid |-> lookup.ssid],
                                         lookup.err, lookup.requested)]
    /\ LookupUnchanged

\* The databases a lookup is run on: a device that is or is not in the one
\* group, which does or does not authorize the one network.
SnapshotDatabases ==
    {Database([macaddress |-> {[id |-> 1, macaddress |-> MacA]},
               devicegroup |-> {[id |-> 1, name |-> "Staff"]},
               ssid |-> {[id |-> 1, ssid |-> NetNa]},
               macaddress_devicegroup |-> md,
               group_ssid |-> gs],
              [macaddress |-> 1, devicegroup |-> 1, ssid |-> 1]) :
        md \in {{}, {<<1, 1>>}}, gs \in {{}, {<<1, 1>>}}}

InitSnapshot ==
    /\ ServerOff
    /\ deleted = {}
    /\ adminErr = ErrNil
    /\ \E db \in SnapshotDatabases : store = db.store /\ sequence = db.sequence
    /\ lastOp = NoOperation
    /\ lookup = NoLookup
    /\ dbop = [g \in Handlers |-> NoDbOp]
    /\ sessions = [b \in Browsers |-> NoSession]
    /\ pc = "idle"
    /\ request = NoPacket
    /\ mac = <<>>
    /\ validFormat = FALSE
    /\ requestedSSID = <<>>
    /\ lookups = 0
    /\ fault = "none"
    /\ record = NoRecord
    /\ err = ErrNil
    /\ code = CodeAccessReject
    /\ response = <<>>
    /\ arg = <<>>
    /\ calls = <<>>

NextSnapshot ==
    \/ \E m \in {MacA, MacB}, requested \in {NetNa, NetNb} : GetMACRecordCall(m, requested)
    \/ GetMACRecordDevice
    \/ GetMACRecordGroups
    \/ GetMACRecordSsids
    \/ LookupAnswered
    \/ \E id \in FormRowIds : deviceDeleteHandler(id)
    \/ \E id \in FormRowIds, ids \in FormIdLists : deviceUpdateHandler(id, ids)
    \/ \E id \in FormRowIds, ids \in FormIdLists : groupUpdateHandler(id, ids)

SpecSnapshot == InitSnapshot /\ [][NextSnapshot]_vars

\* ------------------------------------------------------------------------
\* The mutex of macdatabase
\* ------------------------------------------------------------------------

\* The operations of macdatabase that goroutines call.
DbOperations == {"Open", "Close", "AddMACAddress", "RemoveMACAddress", "GetMACAddresses",
                 "GetMACRecord"}

ErrUnableToOpen == "Unable to open database"

\* What a step of a macdatabase operation leaves alone, the mutex and the
\* operations themselves aside.
DbUnchanged == UNCHANGED <<handlerVars, helperVars, adminVars, sequence, lastOp, lookup,
                           sessions, serve, shutdownRequested, wait, mainpc, sigpc, dropped,
                           inflight, written, stalled>>

\* Goroutine g calls an operation.
DbCall(g, op) ==
    /\ dbop[g].pc = "idle"
    /\ dbop' = [dbop EXCEPT ![g] = [op |-> op, pc |-> "lock", err |-> ErrNil]]
    /\ UNCHANGED mux
    /\ DbUnchanged

\* The first line of every operation: mdb.mux.Lock(), which waits while
\* another goroutine holds the mutex; defer mdb.mux.Unlock() follows it.
DbLock(g) ==
    /\ dbop[g].pc = "lock"
    /\ mux = 0
    /\ mux' = g
    /\ dbop' = [dbop EXCEPT ![g].pc = "locked"]
    /\ DbUnchanged

\* radius.go, lines 150-177: Open.  sql.Open fails, or the PRAGMA fails, or
\* the file was there and Open is done, or the file is new and initialize is
\* called.
DbOpen(g) ==
    /\ dbop[g].pc = "locked"
    /\ dbop[g].op = "Open"
    /\ ~stalled
    /\ \E outcome \in {ErrUnableToOpen, ErrStorage, "exists", "new"} :
           dbop' = [dbop EXCEPT ![g] =
                       CASE outcome = "exists" -> [@ EXCEPT !.pc = "return"]
                         [] outcome = "new" -> [@ EXCEPT !.pc = "initialize"]
                         [] OTHER -> [@ EXCEPT !.pc = "return", !.err = outcome]]
    /\ UNCHANGED mux
    /\ DbUnchanged

\* initialize taking the mutex as the exported operations do.
DbInitializeLocking(g) ==
    /\ dbop[g].pc = "initialize"
    /\ ~stalled
    /\ mux = 0
    /\ mux' = g
    /\ \E e \in {ErrNil, ErrStorage} :
           dbop' = [dbop EXCEPT ![g] = [@ EXCEPT !.pc = "return", !.err = e]]
    /\ DbUnchanged

\* radius.go, lines 191-232: initialize, called by Open with the mutex held.
\* It does not lock; it runs the schema's statements and returns the first
\* error.
DbInitialize(g) ==
    /\ dbop[g].pc = "initialize"
    /\ ~stalled
    /\ \E e \in {ErrNil, ErrStorage} :
           dbop' = [dbop EXCEPT ![g] = [@ EXCEPT !.pc = "return", !.err = e]]
    /\ UNCHANGED mux
    /\ DbUnchanged

\* radius.go, lines 184-187: Close.
DbClose(g) ==
    /\ dbop[g].pc = "locked"
    /\ dbop[g].op = "Close"
    /\ ~stalled
    /\ dbop' = [dbop EXCEPT ![g].pc = "return"]
    /\ UNCHANGED mux
    /\ DbUnchanged

\* radius.go, lines 238-249 and 256-267: AddMACAddress and RemoveMACAddress.
\* Prepare fails (the statements name the table macaddresses) and the error
\* is returned; were it to succeed, Exec fails or not.
DbExec(g) ==
    /\ dbop[g].pc = "locked"
    /\ dbop[g].op \in {"AddMACAddress", "RemoveMACAddress"}
    /\ ~stalled
    /\ \E e \in {ErrNoSuchTable, ErrStorage, ErrNil} :
           dbop' = [dbop EXCEPT ![g] = [@ EXCEPT !.pc = "return", !.err = e]]
    /\ UNCHANGED mux
    /\ DbUnchanged

\* radius.go, lines 274-287: GetMACAddresses.
DbQuery(g) ==
    /\ dbop[g].pc = "locked"
    /\ dbop[g].op = "GetMACAddresses"
    /\ ~stalled
    /\ \E e \in {ErrStorage, ErrNil} :
           dbop' = [dbop EXCEPT ![g] = [@ EXCEPT !.pc = "return", !.err = e]]
    /\ UNCHANGED mux
    /\ DbUnchanged

\* radius.go, lines 294-336: GetMACRecord.  It returns on the error of a
\* Prepare, on the first statement finding no row or failing, on the error of
\* a Query, or with the record.
DbLookup(g) ==
    /\ dbop[g].pc = "locked"
    /\ dbop[g].op = "GetMACRecord"
    /\ ~stalled
    /\ \E f \in FaultPoints, found \in BOOLEAN :
           dbop' = [dbop EXCEPT ![g] =
                       [@ EXCEPT !.pc = "return",
                                 !.err = IF f \in {"prepare1", "queryrow1"} THEN ErrStorage
                                         ELSE IF ~found THEN ErrNoRows
                                         ELSE IF f \in {"prepare2", "query2", "prepare3",
                                                        "query3"}
                                         THEN ErrStorage
                                         ELSE ErrNil]]
    /\ UNCHANGED mux
    /\ DbUnchanged

\* The operation returns, with or without an error, and the deferred
\* mdb.mux.Unlock() runs.
DbReturn(g) ==
    /\ dbop[g].pc = "return"
    /\ mux' = 0
    /\ dbop' = [dbop EXCEPT ![g].pc = "idle"]
    /\ DbUnchanged

\* The process is running and no goroutine is in an operation.
InitMutex ==
    /\ serve = [s \in Servers |-> "serving"]
    /\ shutdownRequested = [s \in Servers |-> FALSE]
    /\ wait = Cardinality(Servers)
    /\ mainpc = "wait"
    /\ sigpc = "recv"
    /\ dropped = FALSE
    /\ inflight = [h \in Handlers |-> IdleHandler]
    /\ written = [h \in Handlers |-> <<>>]
    /\ mux = 0
    /\ stalled = FALSE
    /\ deleted = {}
    /\ adminErr = ErrNil
    /\ ConsoleOff
    /\ store = ServerStore
    /\ pc = "idle"
    /\ request = NoPacket
    /\ mac = <<>>
    /\ validFormat = FALSE
    /\ requestedSSID = <<>>
    /\ lookups = 0
    /\ fault = "none"
    /\ record = NoRecord
    /\ err = ErrNil
    /\ code = CodeAccessReject
    /\ response = <<>>
    /\ arg = <<>>
    /\ calls = <<>>

\* The steps of goroutine g inside an operation, once it has the mutex.
DbStep(g) ==
    \/ DbOpen(g)
    \/ DbInitialize(g)
    \/ DbClose(g)
    \/ DbExec(g)
    \/ DbQuery(g)
    \/ DbLookup(g)
    \/ DbReturn(g)

NextMutex ==
    \/ \E g \in Handlers, op \in DbOperations : DbCall(g, op)
    \/ \E g \in Handlers : DbLock(g)
    \/ \E g \in Handlers : DbOpen(g)
    \/ \E g \in Handlers : DbInitialize(g)
    \/ \E g \in Handlers : DbClose(g)
    \/ \E g \in Handlers : DbExec(g)
    \/ \E g \in Handlers : DbQuery(g)
    \/ \E g \in Handlers : DbLookup(g)
    \/ \E g \in Handlers : DbReturn(g)
    \/ StoreStalls

\* The scheduler runs every goroutine that can take a step, and a goroutine
\* waiting for the mutex gets it when it is unlocked again and again
\* (sync.Mutex hands the lock to a starving waiter).  Calls and the store's
\* stalling are not owed.
FairMutex ==
    /\ \A g \in Handlers : SF_vars(DbLock(g))
    /\ \A g \in Handlers : WF_vars(DbStep(g))

SpecMutex == InitMutex /\ [][NextMutex]_vars /\ FairMutex

\* ------------------------------------------------------------------------
\* The console's session gate
\* ------------------------------------------------------------------------

\* The accounts of the console: the usernames and the passwords their hashes
\* were made of.  One account has the empty username.
UserAlice == <<"a", "l">>
PasswordAlice == <<"p", "w">>
PasswordOther == <<"x">>
Accounts == {[username |-> UserAlice, password |-> PasswordAlice],
             [username |-> <<>>, password |-> PasswordOther]}

\* argon2.GenerateFromPassword: an encoded hash, which begins with '$'.
Hash(password) == <<"$">> \o password

\* The rows of the users table: the accounts, and a user whose stored hash
\* is not an encoded hash.
UserBroken == <<"b", "o">>
UserRows == {[ID |-> 1, Username |-> UserAlice, Password |-> Hash(PasswordAlice)],
             [ID |-> 2, Username |-> <<>>, Password |-> Hash(PasswordOther)],
             [ID |-> 3, Username |-> UserBroken, Password |-> PasswordOther]}

\* The zero value of User.
NoUser == [ID |-> 0, Username |-> <<>>, Password |-> <<>>]

ErrInvalidHash == "argon2: the encoded hash is not in the correct format"
ErrMismatchedHashAndPassword == "argon2: hashedPassword is not the hash of the given password"

\* argon2.CompareHashAndPassword(hash, password): an error for a hash that
\* does not decode, and for one that is not the hash of the password.
CompareHashAndPassword(hash, password) ==
    IF hash = <<>> \/ Head(hash) # "$" THEN ErrInvalidHash
    ELSE IF Tail(hash) = password THEN ErrNil
    ELSE ErrMismatchedHashAndPassword

\* DB.Where("username = ?", username).First(&user): the user is filled from
\* the row when there is one; failing is a query that fails, which leaves the
\* user zero-valued and is not a record-not-found error.
FirstUser(username, failing) ==
    LET rows == IF failing THEN {} ELSE {u \in UserRows : u.Username = username}
    IN  [user |-> IF rows = {} THEN NoUser ELSE CHOOSE u \in rows : TRUE,
         RecordNotFound |-> ~failing /\ rows = {}]

\* What a request to the console leaves alone.
SessionUnchanged == UNCHANGED <<handlerVars, helperVars, serverVars, adminVars, sequence,
                                lastOp, lookup, dbop>>

Request(kind, username, password, failing) ==
    [kind |-> kind, username |-> username, password |-> password, failing |-> failing]

\* webui-handlers.go, lines 22-58: loginSubmitHandler in browser session b.
loginSubmitHandler(b, username, password, failing) ==
    /\ LET found == FirstUser(username, failing)
           entered == ~found.RecordNotFound
           hasherr == IF entered
                      THEN CompareHashAndPassword(found.user.Password, password)
                      ELSE ErrNil
       IN  sessions' = [sessions EXCEPT ![b] =
               IF entered /\ hasherr = ErrNil
               THEN [username |-> [present |-> TRUE, value |-> found.user.Username],
                     request |-> Request("loginSubmit", username, password, failing),
                     outcome |-> "redirect /",
                     before |-> @.username,
                     since |-> "login"]
               ELSE [@ EXCEPT !.request = Request("loginSubmit", username, password, failing),
                              !.outcome = "redirect /login",
                              !.before = sessions[b].username]]
    /\ SessionUnchanged

\* webui.go, lines 252-299: loginHandler on POST, which takes the user for
\* found when its ID is set.
loginHandler(b, username, password, failing) ==
    /\ LET found == FirstUser(username, failing)
           entered == found.user.ID > 0
           hasherr == IF entered
                      THEN CompareHashAndPassword(found.user.Password, password)
                      ELSE ErrNil
       IN  sessions' = [sessions EXCEPT ![b] =
               IF entered /\ hasherr = ErrNil
               THEN [username |-> [present |-> TRUE, value |-> found.user.Username],
                     request |-> Request("login", username, password, failing),
                     outcome |-> "redirect /",
                     before |-> @.username,
                     since |-> "login"]
               ELSE [@ EXCEPT !.request = Request("login", username, password, failing),
                              !.outcome = "redirect /login",
                              !.before = sessions[b].username]]
    /\ SessionUnchanged

\* webui-handlers.go, lines 60-68: logoutHandler.
logoutHandler(b) ==
    /\ sessions' = [sessions EXCEPT ![b] =
                       [username |-> NoUsername,
                        request |-> Request("logout", <<>>, <<>>, FALSE),
                        outcome |-> "redirect /login",
                        before |-> @.username,
                        since |-> "logout"]]
    /\ SessionUnchanged

\* RequireAuthentication passing every session that has a username.
RequireAuthenticationAnyUsername(b) ==
    /\ sessions' = [sessions EXCEPT ![b] =
                       [@ EXCEPT !.request = Request("protected", <<>>, <<>>, FALSE),
                                 !.outcome = IF sessions[b].username.present
                                             THEN "next"
                                             ELSE "redirect /login",
                                 !.before = sessions[b].username]]
    /\ SessionUnchanged

\* webui.go, lines 239-250: RequireAuthentication around a handler of a
\* protected route: the handler runs when the session's username is a
\* non-empty string, otherwise the request is redirected to /login.
RequireAuthentication(b) ==
    /\ sessions' = [sessions EXCEPT ![b] =
                       [@ EXCEPT !.request = Request("protected", <<>>, <<>>, FALSE),
                                 !.outcome = IF /\ sessions[b].username.present
                                                /\ Len(sessions[b].username.value) > 0
                                             THEN "next"
                                             ELSE "redirect /login",
                                 !.before = sessions[b].username]]
    /\ SessionUnchanged

\* webui.go, lines 91-96: MaxAge of 5 minutes.  The session's time is up: its
\* values are gone.
SessionExpires(b) ==
    /\ sessions[b].since # "new"
    /\ sessions' = [sessions EXCEPT ![b] =
                       [username |-> NoUsername,
                        request |-> Request("expired", <<>>, <<>>, FALSE),
                        outcome |-> "none",
                        before |-> @.username,
                        since |-> "expired"]]
    /\ SessionUnchanged

\* The usernames and passwords submitted to the login form.
FormUsernames == {UserAlice, UserBroken, <<>>, <<"n", "o">>}
FormPasswords == {PasswordAlice, PasswordOther, <<>>}

InitSession ==
    /\ ServerOff
    /\ deleted = {}
    /\ adminErr = ErrNil
    /\ ConsoleOff
    /\ store = NoStore
    /\ pc = "idle"
    /\ request = NoPacket
    /\ mac = <<>>
    /\ validFormat = FALSE
    /\ requestedSSID = <<>>
    /\ lookups = 0
    /\ fault = "none"
    /\ record = NoRecord
    /\ err = ErrNil
    /\ code = CodeAccessReject
    /\ response = <<>>
    /\ arg = <<>>
    /\ calls = <<>>

NextSession ==
    \/ \E b \in Browsers, u \in FormUsernames, p \in FormPasswords, failing \in BOOLEAN :
           loginSubmitHandler(b, u, p, failing)
    \/ \E b \in Browsers, u \in FormUsernames, p \in FormPasswords, failing \in BOOLEAN :
           loginHandler(b, u, p, failing)
    \/ \E b \in Browsers : logoutHandler(b)
    \/ \E b \in Browsers : RequireAuthentication(b)
    \/ \E b \in Browsers : SessionExpires(b)

SpecSession == InitSession /\ [][NextSession]_vars

\* ------------------------------------------------------------------------
\* What the claims speak of, stated without the handler's own routines
\* ------------------------------------------------------------------------

LowerOf == [c \in {"A", "B", "C", "D", "E", "F", "G", "N"} |->
               CASE c = "A" -> "a" [] c = "B" -> "b" [] c = "C" -> "c"
                 [] c = "D" -> "d" [] c = "E" -> "e" [] c = "F" -> "f"
                 [] c = "G" -> "g" [] c = "N" -> "n"]

\* x with every upper-case letter lower-cased, position by position.
LowerCased(x) ==
    [i \in 1..Len(x) |-> IF x[i] \in DOMAIN LowerOf THEN LowerOf[x[i]] ELSE x[i]]

NotDelimiter(c) == c \notin {":", "-", "."}

\* x without its ':', '-' and '.' characters.
DelimitersRemoved(x) == SelectSeq(x, NotDelimiter)

\* Exactly 12 characters, each of 0-9 or a-f.
TwelveLowerHex(x) == Len(x) = 12 /\ \A i \in 1..Len(x) : x[i] \in HexLower

\* The text after the last ':' of x, the whole of x when it has none.
AfterLastColon(x) ==
    LET colons == {i \in 1..Len(x) : x[i] = ":"}
        last == IF colons = {} THEN 0
                ELSE CHOOSE i \in colons : \A j \in colons : j <= i
    IN  SubSeq(x, last + 1, Len(x))

\* The request being handled, as the client sent it.
ReqIdentity ==
    DelimitersRemoved(LowerCased(IF request.UserName.present
                                 THEN request.UserName.value ELSE <<>>))
ReqWireless ==
    /\ request.NASPortType.present
    /\ request.NASPortType.value \in {NASPortType_Value_Wireless80211,
                                      NASPortType_Value_WirelessOther}
ReqNetwork ==
    AfterLastColon(IF request.CalledStationID.present
                   THEN request.CalledStationID.value ELSE <<>>)

\* The stored devices with the request's identity, and the union, over the
\* groups such a device belongs to, of the names of the networks the group
\* authorizes.
ReqDevices == {d \in store.macaddress : d.macaddress = ReqIdentity}
GroupsOf(d) == {r[2] : r \in {q \in store.macaddress_devicegroup : q[1] = d.id}}
NetworksOf(g) ==
    {n.ssid : n \in {k \in store.ssid : <<g, k.id>> \in store.group_ssid}}
AuthorizedNetworks == UNION {NetworksOf(g) : g \in UNION {GroupsOf(d) : d \in ReqDevices}}

\* The handler has written its response; the code it carried.
Answered == pc = "done" /\ Len(response) = 1
Answer == response[1].code

\* ------------------------------------------------------------------------
\* Claims
\* ------------------------------------------------------------------------

\* C1: a request on a wireless port whose identity normalizes to a valid
\* address of a stored device, looked up without a storage fault, is answered
\* Access-Accept if and only if the requested network is in the union of the
\* networks of the device's groups; a device with no group, or whose groups
\* authorize no network, is rejected.
C1_AcceptIffInUnionOfGroups ==
    ( /\ Answered
      /\ ReqWireless
      /\ TwelveLowerHex(ReqIdentity)
      /\ ReqDevices # {}
      /\ fault = "none" )
    => /\ (Answer = CodeAccessAccept) <=> (ReqNetwork \in AuthorizedNetworks)
       /\ Answer \in {CodeAccessAccept, CodeAccessReject}
       /\ AuthorizedNetworks = {} => Answer = CodeAccessReject

\* C1 witness: the device is in two groups, one authorizing only "Na" and
\* the other only "Nb", and its request for "Nb" was accepted.
C1_Witness ==
    /\ Answered /\ ReqWireless /\ fault = "none"
    /\ \E d \in ReqDevices : \E g1 \in GroupsOf(d) : \E g2 \in GroupsOf(d) :
          NetworksOf(g1) = {NetNa} /\ NetworksOf(g2) = {NetNb}
    /\ ReqNetwork = NetNb
    /\ Answer = CodeAccessAccept

\* C2: a request whose NAS-Port-Type is neither Wireless-802.11 nor
\* Wireless-Other is answered Access-Reject, whatever the store holds.
C2_PortTypeGateDominates ==
    (Answered /\ ~ReqWireless) => Answer = CodeAccessReject

\* C2 witness: an Ethernet request of a stored device for a network its
\* groups authorize was rejected.
C2_Witness ==
    /\ Answered
    /\ request.NASPortType = Attr(NASPortType_Value_Ethernet)
    /\ ReqDevices # {}
    /\ request.CalledStationID.present
    /\ ReqNetwork \in AuthorizedNetworks
    /\ Answer = CodeAccessReject

\* C3: a request whose identity is validly formatted and has no device row
\* in the store is answered Access-Reject, for every requested network.
C3_UnknownDeviceRejected ==
    (Answered /\ TwelveLowerHex(ReqIdentity) /\ ReqDevices = {})
    => Answer = CodeAccessReject

\* C3 witness: the lookup of the unregistered address "112233445566" on a
\* wireless port found no row, and the request was rejected although another
\* device's group authorizes the requested network.
C3_Witness ==
    /\ Answered /\ ReqWireless
    /\ request.UserName = Attr(IdUnregistered)
    /\ lookups = 1 /\ fault = "none" /\ err = ErrNoRows
    /\ \E g \in {r[2] : r \in store.macaddress_devicegroup} : ReqNetwork \in NetworksOf(g)
    /\ Answer = CodeAccessReject

\* C4: GetMACRecord is called at most once per request and only for a request
\* on a wireless port whose identity normalizes to 12 lower-case hex
\* characters; a request with any other identity is rejected without a lookup.
C4_LookupOnlyAfterBothChecks ==
    /\ lookups \in {0, 1}
    /\ lookups = 1 => (ReqWireless /\ TwelveLowerHex(ReqIdentity))
    /\ pc = "verify" => lookups = 1
    /\ (Answered /\ ~TwelveLowerHex(ReqIdentity))
          => (lookups = 0 /\ Answer = CodeAccessReject)

\* C4 witness: "not-a-mac" on a wireless port was rejected with no lookup.
C4_Witness ==
    /\ Answered /\ ReqWireless
    /\ request.UserName = Attr(IdNotAMac)
    /\ lookups = 0
    /\ Answer = CodeAccessReject

SameString(a, b) == Len(a) = Len(b) /\ \A i \in 1..Len(a) : a[i] = b[i]

\* C6: a request is accepted only if the requested network name is,
\* character for character, the name of a network the device's groups
\* authorize; a name differing in letter case, or a prefix or an extension of
\* an authorized name, is rejected.
C6_NetworkMatchIsExact ==
    (Answered /\ \A n \in AuthorizedNetworks : ~SameString(n, ReqNetwork))
    => Answer = CodeAccessReject

\* C6 witness: the device is authorized for "Na" and its request for "na"
\* was rejected.
C6_Witness ==
    /\ Answered /\ ReqWireless /\ fault = "none" /\ err = ErrNil
    /\ NetNa \in AuthorizedNetworks
    /\ ReqNetwork = <<"n", "a">>
    /\ Answer = CodeAccessReject

\* C7 (as claimed): a request missing any of User-Name, NAS-Port-Type and
\* Called-Station-Id is answered Access-Reject, and the handler does not panic.
C7_MissingAttributeRejected ==
    /\ pc # "panic"
    /\ (Answered /\ (~request.UserName.present
                       \/ ~request.NASPortType.present
                       \/ ~request.CalledStationID.present))
          => Answer = CodeAccessReject

\* C8: the requested network is the text after the last ':' of the
\* Called-Station-Id (the whole of it when it has none), so a stored device
\* authorized for N is accepted for a Called-Station-Id that ends in ':N'.
C8_NetworkIsLastColonSegment ==
    /\ pc \in {"switch", "verify", "respond", "done"} => requestedSSID = ReqNetwork
    /\ ( /\ Answered /\ ReqWireless /\ ReqDevices # {} /\ fault = "none"
         /\ request.CalledStationID.present
         /\ \E n \in AuthorizedNetworks :
               /\ \A i \in 1..Len(n) : n[i] # ":"
               /\ \E k \in 0..Len(request.CalledStationID.value) :
                     request.CalledStationID.value =
                        SubSeq(request.CalledStationID.value, 1, k) \o <<":">> \o n )
       => Answer = CodeAccessAccept

\* C8 witness: "0A:1B:Na", with a colon before the last one, was accepted as
\* a request for "Na".
C8_Witness ==
    /\ Answered
    /\ request.CalledStationID = Attr(ApColonPrefix \o NetNa)
    /\ requestedSSID = NetNa
    /\ Answer = CodeAccessAccept


\* C9: every normalization, by normalizeMACAddress or inline in
\* radiusHandler, returns its input lower-cased with every ':', '-' and '.'
\* removed and nothing else changed; so both return the same, and
\* "AA:BB:CC:DD:EE:FF" and "aabbccddeeff" both normalize to "aabbccddeeff".
C9_NormalizeLowersAndStrips ==
    \A i \in DOMAIN calls :
        calls[i].fn \in {"normalizeMACAddress", "handlerMAC"} =>
            /\ calls[i].output = DelimitersRemoved(LowerCased(calls[i].input))
            /\ calls[i].input \in {IdUpperA, MacA} => calls[i].output = MacA

\* C9 witness: both normalizations were applied to "AA:BB:CC:DD:EE:FF" and
\* returned "aabbccddeeff".
C9_Witness ==
    /\ Len(calls) = 2
    /\ calls[1].fn = "normalizeMACAddress" /\ calls[2].fn = "handlerMAC"
    /\ calls[1].input = IdUpperA /\ calls[2].input = IdUpperA
    /\ calls[1].output = MacA /\ calls[2].output = MacA

\* C10: normalizing the output of normalizeMACAddress again returns it
\* unchanged.
C10_NormalizeIdempotent ==
    \A i \in DOMAIN calls : \A j \in DOMAIN calls :
        ( /\ j = i + 1
          /\ calls[i].fn = "normalizeMACAddress"
          /\ calls[j].fn = "normalizeMACAddress"
          /\ calls[j].input = calls[i].output )
        => calls[j].output = calls[i].output

\* C10 witness: a string that the first normalization changed (it held
\* upper-case letters and all three delimiters) was normalized twice.
C10_Witness ==
    /\ Len(calls) = 2
    /\ calls[1].fn = "normalizeMACAddress" /\ calls[2].fn = "normalizeMACAddress"
    /\ calls[1].input = IdMixed
    /\ calls[1].output # calls[1].input
    /\ calls[2].input = calls[1].output
    /\ calls[2].output = MacA

\* The upper-case hexadecimal digits.
HexUpper == Digits \cup {"A", "B", "C", "D", "E", "F"}

\* C11: isValidMACFormat returns a boolean for every string, and returns
\* true exactly for the strings of 12 characters that are all of 0-9 or a-f;
\* a longer string that merely contains such a run, an upper-case digit, a
\* delimiter or white space make it false.
C11_ValidIffTwelveLowerHex ==
    \A i \in DOMAIN calls :
        calls[i].fn = "isValidMACFormat" =>
            /\ calls[i].output \in BOOLEAN
            /\ calls[i].output = TwelveLowerHex(calls[i].input)

\* C11 witness: isValidMACFormat was applied to a string of 13 lower-case
\* hexadecimal digits and returned false.
C11_Witness ==
    /\ Len(calls) >= 1
    /\ calls[1].fn = "isValidMACFormat"
    /\ Len(calls[1].input) = 13
    /\ \A k \in 1..13 : calls[1].input[k] \in HexLower
    /\ calls[1].output = FALSE

\* C12: prettyPrintMACAddress returns "" for every input that
\* isValidMACFormat rejects; for a valid input it returns 17 characters: six
\* groups of two upper-case hexadecimal digits, in the input's order, with a
\* ":" between groups; and normalizing a non-empty result returns the input.
C12_PrettyPrintShape ==
    \A i \in DOMAIN calls :
        calls[i].fn = "prettyPrintMACAddress" =>
            LET in == calls[i].input
                out == calls[i].output
            IN  /\ ~TwelveLowerHex(in) => out = <<>>
                /\ TwelveLowerHex(in) =>
                      /\ Len(out) = 17
                      /\ \A k \in 1..17 :
                            IF k % 3 = 0 THEN out[k] = ":" ELSE out[k] \in HexUpper
                      /\ DelimitersRemoved(LowerCased(out)) = in
                /\ \A j \in DOMAIN calls :
                      ( /\ j = i + 1
                        /\ calls[j].fn = "normalizeMACAddress"
                        /\ calls[j].input = out
                        /\ out # <<>> )
                      => calls[j].output = in

\* C12 witness: "aabbccddeeff" was printed as "AA:BB:CC:DD:EE:FF" and the
\* result normalized back to "aabbccddeeff".
C12_Witness ==
    /\ Len(calls) = 2
    /\ calls[1].fn = "prettyPrintMACAddress" /\ calls[1].input = MacA
    /\ calls[1].output = IdUpperA
    /\ calls[2].fn = "normalizeMACAddress" /\ calls[2].input = calls[1].output
    /\ calls[2].output = MacA

\* The lookup of the request at hand has returned to the handler.
LookupReturned == pc \in {"verify", "respond", "done"} /\ lookups = 1

\* The statement at which the fault strikes is one the lookup reached.
StatementFailed ==
    \/ fault \in {"prepare1", "queryrow1"}
    \/ ReqDevices # {} /\ fault \in {"prepare2", "query2", "prepare3", "query3"}

\* C13: the result GetMACRecord hands to the handler for an address without a
\* device row (no record, the error sql.ErrNoRows) differs from the result it
\* hands over when preparing or running a statement fails (no record, the
\* statement's error), and from a found record (error nil).
C13_NotFoundDiffersFromFault ==
    LookupReturned =>
        /\ (ReqDevices = {} /\ ~StatementFailed) <=> err = ErrNoRows
        /\ StatementFailed <=> err = ErrStorage
        /\ err = ErrNil <=> record # NoRecord
        /\ ErrNoRows # ErrStorage

\* C13 witness: a lookup for an address without a device row returned
\* sql.ErrNoRows and no record.
C13_Witness ==
    /\ LookupReturned /\ ReqDevices = {} /\ fault = "none"
    /\ err = ErrNoRows /\ record = NoRecord

\* The code the branch taken for the request at hand decides: Access-Reject
\* on a port type that is not wireless, on a malformed identity, on a lookup
\* error and for a record without the requested network; Access-Accept for
\* a record with it.
BranchDecision ==
    IF ~ReqWireless THEN CodeAccessReject
    ELSE IF ~TwelveLowerHex(ReqIdentity) THEN CodeAccessReject
    ELSE IF err # ErrNil THEN CodeAccessReject
    ELSE IF \E n \in record.ssid : SameString(n.ssid, ReqNetwork) THEN CodeAccessAccept
    ELSE CodeAccessReject

\* C18: on each of the five branches the handler writes exactly one
\* response; nothing is written before the branch has decided the code, and
\* the response carries the code the branch decided.
C18_ExactlyOneResponse ==
    /\ pc \in {"idle", "switch", "verify", "respond", "panic"} => response = <<>>
    /\ pc = "done" =>
          /\ Len(response) = 1
          /\ response[1].code = code
          /\ response[1].code = BranchDecision
          /\ lookups = 0 <=> (~ReqWireless \/ ~TwelveLowerHex(ReqIdentity))

\* C18 witness: the lookup of a well-formed wireless request failed and the
\* one response written is the reject of that branch.
C18_Witness ==
    /\ pc = "done" /\ lookups = 1 /\ err = ErrStorage
    /\ Len(response) = 1 /\ response[1].code = CodeAccessReject

\* Handler goroutine h has nothing left to do for a request: it is not
\* running, or it has written its response.
Finished(h) == inflight[h].pc \in {"idle", "done"}

\* C14: once Stop has been called on the RADIUS server no new request begins
\* to be handled, every request whose handling had started still gets its
\* response written, and only after that does the serve goroutine return and
\* call wait.Done.
C14_GracefulShutdownOrdering ==
    /\ \A h \in Handlers : ~inflight[h].late
    /\ (shutdownRequested["radius"] /\ serve["radius"] \in {"stopped", "done"})
          => \A h \in Handlers : Finished(h)
    /\ mainpc = "exited" => \A h \in Handlers : Finished(h)

\* A signal has been delivered to the process.
SignalWasDelivered == dropped \/ sigpc \notin {"spawned", "recv"}

\* C15: after an interrupt or SIGTERM is delivered, at any point after
\* startup, Stop is called on every server that is still running, every
\* serve goroutine calls wait.Done exactly once, and wait.Wait returns, so
\* that the process exits; also when a server failed to start or a request
\* is still being handled.
C15_SignalLeadsToExit ==
    /\ [](wait = Cardinality({s \in Servers : serve[s] # "done"}))
    /\ SignalWasDelivered ~>
          (\A s \in Servers : shutdownRequested[s] \/ serve[s] \in {"failed", "done"})
    /\ SignalWasDelivered ~> (mainpc = "exited")

\* C16: a request whose store lookup never returns is still answered, with
\* Access-Reject, and every other request, also one that arrives meanwhile, is
\* still answered (as long as the process runs).
C16_StalledStoreStillAnswers ==
    \A h \in Handlers :
        /\ (inflight[h].pc = "query" /\ stalled)
              ~> (\/ inflight[h].pc = "done" /\ inflight[h].code = CodeAccessReject
                  \/ ~Alive)
        /\ (inflight[h].pc # "idle") ~> (inflight[h].pc = "done" \/ ~Alive)

\* The request of handler goroutine h without its identifier.
RequestOf(h) == [a \in {"UserName", "NASPortType", "CalledStationID"} |->
                    inflight[h].request[a]]

\* C17: handling a request never changes the store, and two handlings of the
\* same request, one after the other or interleaved in any way, decide the
\* same code (when no storage fault strikes either lookup).
C17_ReadOnlyAndRepeatable ==
    /\ [][store' = store]_vars
    /\ [](\A h1, h2 \in Handlers :
            ( /\ inflight[h1].pc \in {"respond", "done"}
              /\ inflight[h2].pc \in {"respond", "done"}
              /\ RequestOf(h1) = RequestOf(h2)
              /\ inflight[h1].fault = "none" /\ inflight[h2].fault = "none" )
            => inflight[h1].code = inflight[h2].code)

\* C17 witness: the same request of a stored device for a network its group
\* authorizes was looked up twice and accepted twice.
C17_Witness ==
    /\ \A h \in Handlers :
          /\ inflight[h].pc = "done"
          /\ inflight[h].fault = "none" /\ inflight[h].err = ErrNil
          /\ inflight[h].code = CodeAccessAccept
    /\ RequestOf(1) = RequestOf(2)
    /\ store = ServerStore

\* The response handler goroutine h wrote, without the identifier copied from
\* its request.
ResponseOf(h) == [a \in DOMAIN written[h][1] \ {"Identifier"} |-> written[h][1][a]]

\* C19: the response depends on how the decision was reached only through
\* its code: two requests answered with the same code get responses that are
\* equal apart from the identifier copied from the request, whatever the
\* reasons of the two decisions.
C19_ResponseRevealsOnlyCode ==
    /\ \A h \in Handlers :
          inflight[h].pc = "done" =>
              /\ Len(written[h]) = 1
              /\ written[h][1].Code = inflight[h].code
              /\ written[h][1].Identifier = inflight[h].request.Identifier
    /\ \A h1, h2 \in Handlers :
          ( /\ inflight[h1].pc = "done" /\ inflight[h2].pc = "done"
            /\ inflight[h1].code = inflight[h2].code )
          => ResponseOf(h1) = ResponseOf(h2)

\* C19 witness: one request was rejected for its port type, without a
\* lookup, another because its lookup failed, and both responses are written.
C19_Witness ==
    /\ inflight[1].pc = "done" /\ inflight[2].pc = "done"
    /\ notWirelessPort(NASPortType_Get(inflight[1].request))
    /\ inflight[2].err = ErrStorage
    /\ inflight[1].code = CodeAccessReject /\ inflight[2].code = CodeAccessReject
    /\ ResponseOf(1) = ResponseOf(2)

\* C20: deleting a device removes the device and every association of it
\* with a device group, and leaves the device groups, the networks and the
\* group-network associations as they were; afterwards a request for the
\* deleted identity is rejected and no association row refers to the deleted
\* device.
C20_DeleteCascadesAssociations ==
    /\ \A x \in deleted :
          /\ x.row \notin store.macaddress
          /\ \A r \in store.macaddress_devicegroup : r[1] # x.row.id
          /\ store.devicegroup = x.before.devicegroup
          /\ store.ssid = x.before.ssid
          /\ store.group_ssid = x.before.group_ssid
    /\ (Answered /\ \E x \in deleted : x.row.macaddress = ReqIdentity)
          => Answer = CodeAccessReject

\* The address a submitted value stands for: its delimiters removed, its
\* letters lowered.
SubmittedAddress(x) == LowerCased(DelimitersRemoved(x))

\* A create request whose address is invalid or already stored.
RejectedCreate(op) ==
    /\ op.name \in {"deviceCreate", "devicesCreate"}
    /\ \/ ~TwelveLowerHex(SubmittedAddress(op.address))
       \/ \E d \in op.before.macaddress : d.macaddress = SubmittedAddress(op.address)

C22_GroupNamesNonEmptyAndUnique ==
    /\ \A g \in store.devicegroup : g.name # ""
    /\ \A g, h \in store.devicegroup : g.name = h.name => g = h

\* C23: one decision reads one snapshot.  When a lookup has returned a
\* record, some single store that existed during the call holds the device
\* with exactly the networks returned; and when Access-Accept was decided,
\* some single store that existed during the call holds the device with a
\* group that authorizes the requested network.
C23_DecisionReadsOneSnapshot ==
    /\ lookup.pc \in {"returned", "answered"} /\ lookup.err = ErrNil =>
           \E v \in lookup.moments : v.device # {} /\ v.ssid = lookup.ssid
    /\ lookup.pc = "answered" /\ lookup.code = CodeAccessAccept =>
           \E v \in lookup.moments :
               v.device # {} /\ \E n \in v.ssid : n.ssid = lookup.requested

\* Goroutine g is inside a macdatabase operation: past Lock, before the
\* deferred Unlock has run.
InsideOperation(g) == dbop[g].pc \in {"locked", "initialize", "return"}

\* C24: store access is serialized and free of deadlock.  At most one
\* goroutine is inside a macdatabase operation and it is the holder of the
\* mutex; a goroutine that has returned from an operation, with or without an
\* error, does not hold the mutex; a goroutine inside an operation never
\* waits for the mutex it holds, so it can always take its next step while
\* the store answers; and a goroutine waiting for the mutex eventually has
\* it, unless the store has stopped answering.
C24_SerializedAndDeadlockFree ==
    /\ [](\A g, h \in Handlers : InsideOperation(g) /\ InsideOperation(h) => g = h)
    /\ [](\A g \in Handlers : InsideOperation(g) <=> mux = g)
    /\ [](\A g \in Handlers : InsideOperation(g) /\ ~stalled => ENABLED DbStep(g))
    /\ \A g \in Handlers : (dbop[g].pc = "lock") ~> (dbop[g].pc # "lock" \/ stalled)

\* C24 witness: one goroutine is in initialize, called by Open with the mutex
\* held, while the other waits for the mutex to look a device up.
C24_Witness ==
    /\ dbop[1].op = "Open" /\ dbop[1].pc = "initialize" /\ mux = 1
    /\ dbop[2].op = "GetMACRecord" /\ dbop[2].pc = "lock"

\* The request was a login for an account, with the account's password,
\* whose query did not fail.
ValidLogin(r) ==
    /\ r.kind \in {"login", "loginSubmit"}
    /\ ~r.failing
    /\ \E a \in Accounts : a.username = r.username /\ a.password = r.password

====
